---- MODULE Spec2Model ----
(***************************************************************************)
(* A model of the Applitools Eyes Selenium client (python):                *)
(*   - geometry.Region tiling (get_sub_regions) and intersection,          *)
(*   - EyesScreenshot regions and EyesFrame chains (_webdriver.py),        *)
(*   - PngImage.paste (utils/_image_utils.py),                             *)
(*   - the driver wrapper: frame chain tracking, position providers and    *)
(*     the full page screenshot stitcher (_webdriver.py),                  *)
(*   - the long request clients (core/agent_connector.py and the older     *)
(*     _agent_connector.py) and the retried resource upload,               *)
(*   - the Eyes session lifecycle open / check / close / abort (eyes.py    *)
(*     with _agent_connector.py and test_results.py).                      *)
(*   - set_viewport_size and the browser window (_viewport_size.py),       *)
(*   - the headers the AgentConnector instances share.                     *)
(* Each part has its own specification over the shared variables; the      *)
(* variables of the other parts stay at their initial values.              *)
(***************************************************************************)
EXTENDS Integers, Sequences, FiniteSets, TLC

VARIABLES
    \* ---- geometry.Region under test
    region,         \* the Region get_sub_regions is called on
    tile,           \* max_sub_region_size: [width, height]
    subRegions,     \* the list get_sub_regions returned
    gpc,            \* "input" | "tiled" | "intersected"
    other,          \* the argument of Region.intersect
    region0,        \* the region as it was before intersect changed it
    \* ---- an EyesScreenshot and the last call made on it
    eshot,           \* the EyesScreenshot instance
    shotCall,       \* the call (also one of EyesFrame): its name and argument
    shotOutcome,    \* "none" | "returned" | the exception it raised
    shotResult,     \* what it returned
    png,            \* a PngImage under paste: the image, the one before, the calls
    \* ---- the browser behind the wrapped driver
    page,           \* entire page size of the top-level document: [width, height]
    viewport,       \* size of the window's viewport, the size of every screenshot
    scrollable,     \* whether window.scrollTo moves the top-level document
    framed,         \* whether the documents of the page hold frames
    docs,           \* per browsing context (path of frame names): [scroll, transform]
    nativePath,     \* the browsing context the wrapped driver is in
    \* ---- EyesWebDriver and its position providers
    stitchMode,     \* "Scroll" | "CSS": the kind of _position_provider
    frames,         \* EyesWebDriver._frames, the tracked frame chain
    originStates,   \* _origin_position_provider.states
    posStates,      \* _position_provider.states
    cssPosition,    \* CSSTranslatePositionProvider.current_position
    \* ---- the wrapper call in progress (get_full_page_screenshot runs in steps)
    pc,             \* "idle" | "reset" | "first" | "tiles" | "restore"
    call,           \* name of the wrapper call in progress or last finished
    outcome,        \* "none" | "returned" | the exception the last call raised
    ops,            \* driver operations issued by that call, in order
    pre,            \* the driver state when that call began
    local,          \* locals of get_full_page_screenshot
    \* ---- a long request of an AgentConnector and the server answering it
    client,         \* "core" (core/agent_connector.py) | "legacy" (_agent_connector.py)
    script0,        \* the responses the server is going to give, in order
    script,         \* those it has not given yet
    lrpc,           \* where the client is in the long request
    response,       \* the last response received
    origin,         \* the request it answers: "request" | "poll" | "delete"
    delay,          \* the delay variable of the polling loop, in ms
    sleeps,         \* the sleeps made so far, in ms
    sent,           \* the requests sent so far
    urls,           \* where each went: 0 the service, i the Location of response i
    lrOutcome,      \* "none" | "returned" | "EyesError"
    lrResult,       \* the response the call returned
    parsed,         \* what the session call made of the returned response: [exc, value]
    \* ---- an Eyes instance (eyes.py) and the server it talks to
    is_open,            \* Eyes._is_open
    running_session,    \* Eyes._running_session: NoSession or [session_id, is_new_session]
    failure_reports,    \* Eyes.failure_reports: "Immediate" | "OnClose"
    api_key,            \* Eyes.api_key: None or the key text
    environ,            \* os.environ: the names it defines
    wire,               \* the requests the server has received, in order
    startedSinceOpen,   \* whether a session was started since the last open that succeeded
    startedByFirst,     \* per session started: was it the first one since that open
    eyesCall,           \* the last public call: its name and, for close, its particulars
    eyesOutcome,        \* "none" | "returned" | the exception it raised
    eyesResult,         \* what it returned
    eyesAttrs,          \* the instance's _driver, _app_name and _test_name
    \* ---- a resource upload under the retry decorator (core/agent_connector.py)
    putScript0,         \* how the PUT of each attempt ends, as drawn
    putScript,          \* what is left of it
    attempts,           \* the calls of _upload_data made so far
    problems,           \* retry's list of the exceptions caught
    reports,            \* the calls of report made so far
    uploadSleeps,       \* the sleeps made so far, in ms
    uploadOutcome,      \* "none" | "returned" | the exception raised
    \* ---- _try_upload_data around it
    renderEnd,          \* how the render-info long request ends, as drawn
    tryPc,              \* "idle" | "render_info" | "upload" | "done"
    tryOutcome,         \* "none" | "returned" | the exception raised
    tryResult,          \* what _try_upload_data returned
    \* ---- the browser window behind set_viewport_size (_viewport_size.py)
    win,                \* the window: the size shown, the size it settles at, the
                        \* seconds until then, the resizes requested so far
    winEnv,             \* what the browser does with a resize: chrome, limits, lag
    required,           \* the required_size of the call
    \* ---- the AgentConnector class and its instances (core/agent_connector.py)
    default_headers,    \* AgentConnector._DEFAULT_HEADERS['x-applitools-eyes-client']
    connectors,         \* per instance: the full_agent_id it was constructed with
    requests            \* per request sent: the instance and the header value it carried

shotVars == <<eshot, shotCall, shotOutcome, shotResult, png>>

geomVars == <<region, tile, subRegions, gpc, other, region0, shotVars>>

browserVars == <<page, viewport, scrollable, framed, docs, nativePath>>

driverVars == <<stitchMode, frames, originStates, posStates, cssPosition>>

callVars == <<pc, call, outcome, ops, pre, local>>

drvVars == <<browserVars, driverVars, callVars>>

lrVars ==
    <<client, script0, script, lrpc, response, origin, delay, sleeps, sent, urls,
      lrOutcome, lrResult, parsed>>

eyesVars ==
    <<is_open, running_session, failure_reports, api_key, environ, wire,
      startedSinceOpen, startedByFirst, eyesCall, eyesOutcome, eyesResult,
      eyesAttrs>>

tryVars == <<renderEnd, tryPc, tryOutcome, tryResult>>

retryVars ==
    <<putScript0, putScript, attempts, problems, reports, uploadSleeps,
      uploadOutcome, tryVars>>

vpVars == <<win, winEnv, required>>

connVars == <<default_headers, connectors, requests>>

vars == <<geomVars, drvVars, lrVars, eyesVars, retryVars, vpVars, connVars>>

(***************************************************************************)
(* Bounds of the model.                                                    *)
(***************************************************************************)
MaxCoord == 2       \* region left/top are drawn from -MaxCoord..MaxCoord
MaxSide == 3        \* region width/height are drawn from 0..MaxSide
MaxTile == 2        \* tile width/height are drawn from 1..MaxTile
MaxICoord == 1      \* left/top of the operands of intersect: -MaxICoord..MaxICoord
MaxISide == 2       \* their width/height: -1..MaxISide
MaxElCoord == 2     \* element locations: -MaxElCoord..MaxElCoord
MaxElSide == 2      \* element and region sides: 0..MaxElSide
MaxChain == 2       \* the chains compared hold at most MaxChain frames
MaxPuts == 5        \* the server answers at most MaxPuts uploads
NumFrames == 1      \* every document holds the frames named 1..NumFrames
MaxDepth == 2       \* frames nest at most MaxDepth deep
NumDrivers == 2     \* open() is called with one of NumDrivers drivers
NumNames == 2       \* and one of NumNames app and test names
MaxSessions == 2    \* an Eyes instance starts at most MaxSessions sessions
MaxWire == 5        \* and sends at most MaxWire requests to the server
MaxScript == 4      \* the server scripts hold at most MaxScript responses
MaxStack == 1       \* a driver failure is injected only while the providers'
                    \* state stacks hold fewer than MaxStack leaked entries

(***************************************************************************)
(* geometry.py                                                             *)
(***************************************************************************)
Point(x, y) == [x |-> x, y |-> y]

Region(left, top, width, height) ==
    [left |-> left, top |-> top, width |-> width, height |-> height]

Right(r) == r.left + r.width

Bottom(r) == r.top + r.height

\* The pixels a region covers: columns left..right-1, rows top..bottom-1.
Pixels(r) ==
    {<<x, y>> : x \in r.left..(Right(r) - 1), y \in r.top..(Bottom(r) - 1)}

\* The inner while loop of get_sub_regions: one row of tiles.
RECURSIVE SubRegionsRow(_, _, _, _, _, _)
SubRegionsRow(self, max, current_top, current_bottom, current_left, sub_regions) ==
    IF current_left < self.width
    THEN LET right0 == current_left + max.width
             current_right == IF right0 > self.width THEN self.width ELSE right0
             current_height == current_bottom - current_top
             current_width == current_right - current_left
         IN SubRegionsRow(self, max, current_top, current_bottom,
                          current_left + max.width,
                          Append(sub_regions,
                                 Region(current_left, current_top,
                                        current_width, current_height)))
    ELSE sub_regions

\* The outer while loop of get_sub_regions.
RECURSIVE SubRegionsRows(_, _, _, _)
SubRegionsRows(self, max, current_top, sub_regions) ==
    IF current_top < self.height
    THEN LET bottom0 == current_top + max.height
             current_bottom == IF bottom0 > self.height THEN self.height ELSE bottom0
         IN SubRegionsRows(self, max, current_top + max.height,
                           SubRegionsRow(self, max, current_top, current_bottom,
                                         self.left, sub_regions))
    ELSE sub_regions

get_sub_regions(self, max_sub_region_size) ==
    SubRegionsRows(self, max_sub_region_size, self.top, <<>>)

\* Region.is_empty: left == top == width == height == 0, a chained comparison
is_empty(self) ==
    /\ self.left = self.top
    /\ self.top = self.width
    /\ self.width = self.height
    /\ self.height = 0

\* Region.make_empty
make_empty(self) == Region(0, 0, 0, 0)

\* Region.overlaps
overlaps_Strict(self, other_) ==
    /\ \/ (self.left <= other_.left /\ other_.left < Right(self))
       \/ (other_.left <= self.left /\ self.left < Right(other_))
    /\ \/ (self.top <= other_.top /\ other_.top < Bottom(self))
       \/ (other_.top <= self.top /\ self.top < Bottom(other_))

overlaps(self, other_) ==
    /\ \/ (self.left <= other_.left /\ other_.left <= Right(self))
       \/ (other_.left <= self.left /\ self.left <= Right(other_))
    /\ \/ (self.top <= other_.top /\ other_.top <= Bottom(self))
       \/ (other_.top <= self.top /\ self.top <= Bottom(other_))

\* Region.intersect: the region self is after self.intersect(other)
intersect_KeepsLeft(self, other_) ==
    IF ~overlaps(self, other_) THEN make_empty(self)
    ELSE LET intersection_right ==
                 IF Right(self) <= Right(other_) THEN Right(self) ELSE Right(other_)
             intersection_bottom ==
                 IF Bottom(self) <= Bottom(other_) THEN Bottom(self) ELSE Bottom(other_)
         IN Region(self.left, self.top, intersection_right - self.left,
                   intersection_bottom - self.top)

intersect(self, other_) ==
    IF ~overlaps(self, other_) THEN make_empty(self)
    ELSE LET intersection_left ==
                 IF self.left >= other_.left THEN self.left ELSE other_.left
             intersection_top ==
                 IF self.top >= other_.top THEN self.top ELSE other_.top
             intersection_right ==
                 IF Right(self) <= Right(other_) THEN Right(self) ELSE Right(other_)
             intersection_bottom ==
                 IF Bottom(self) <= Bottom(other_) THEN Bottom(self) ELSE Bottom(other_)
         IN Region(intersection_left, intersection_top,
                   intersection_right - intersection_left,
                   intersection_bottom - intersection_top)

(***************************************************************************)
(* utils/_image_utils.py: PngImage.  A row of pixel_bytes is kept as a     *)
(* list of runs [n, x0, y]: n consecutive pixels showing the document      *)
(* pixels (x0, y), (x0+1, y), ...  This is the row's pixel list, run       *)
(* length encoded; one pixel is one unit (pixel_size bytes in the code).   *)
(***************************************************************************)
RECURSIVE RowLen(_)
RowLen(row) == IF row = <<>> THEN 0 ELSE Head(row).n + RowLen(Tail(row))

\* row[:k] for k >= 0
RECURSIVE RowTake(_, _)
RowTake(row, k) ==
    IF k <= 0 \/ row = <<>> THEN <<>>
    ELSE IF Head(row).n <= k
         THEN <<Head(row)>> \o RowTake(Tail(row), k - Head(row).n)
         ELSE <<[Head(row) EXCEPT !.n = k]>>

\* row[k:] for k >= 0
RECURSIVE RowDrop(_, _)
RowDrop(row, k) ==
    IF row = <<>> THEN <<>>
    ELSE IF k <= 0 THEN row
    ELSE IF Head(row).n <= k
         THEN RowDrop(Tail(row), k - Head(row).n)
         ELSE <<[Head(row) EXCEPT !.n = @ - k, !.x0 = @ + k]>> \o Tail(row)

\* The document pixel shown at column i (0-based) of a row.
RECURSIVE PixelAt(_, _)
PixelAt(row, i) ==
    IF Head(row).n > i THEN <<Head(row).x0 + i, Head(row).y>>
    ELSE PixelAt(Tail(row), i - Head(row).n)

PngImage(width, height, pixel_bytes) ==
    [width |-> width, height |-> height, pixel_bytes |-> pixel_bytes]

Max(a, b) == IF a >= b THEN a ELSE b

Min(a, b) == IF a <= b THEN a ELSE b

\* PngImage.paste followed by _update_size.  The loop over y_offset touches
\* row top + y_offset while that is below self.height (the height before
\* the call) and appends the row to the end of the list otherwise.
paste(self, left, top, pixel_bytes_to_paste) ==
    LET x_start == left
        pixel_bytes_to_paste_len == RowLen(pixel_bytes_to_paste[1])
        count == Len(pixel_bytes_to_paste)
        \* the y_offsets with y_current < self.height are 0..inPlace-1
        inPlace == Max(0, Min(count, self.height - top))
        updated ==
            [i \in 1..Len(self.pixel_bytes) |->
                IF i - 1 >= top /\ i - 1 - top < inPlace
                THEN RowTake(self.pixel_bytes[i], x_start)
                        \o pixel_bytes_to_paste[i - top]
                        \o RowDrop(self.pixel_bytes[i],
                                   x_start + pixel_bytes_to_paste_len)
                ELSE self.pixel_bytes[i]]
        appended == SubSeq(pixel_bytes_to_paste, inPlace + 1, count)
        rows == updated \o appended
        paste_right == x_start + pixel_bytes_to_paste_len
    IN PngImage(Max(self.width, paste_right), Len(rows), rows)

(***************************************************************************)
(* The browser behind the wrapped driver (an external collaborator).       *)
(* A browsing context is the path of frame names from the top-level        *)
(* document.  Documents inside frames fit their frame: they never scroll.  *)
(***************************************************************************)
RECURSIVE PathsUpTo(_)
PathsUpTo(n) ==
    IF n = 0 THEN {<<>>}
    ELSE LET shorter == PathsUpTo(n - 1)
         IN shorter \cup {Append(p, f) : p \in shorter, f \in 1..NumFrames}

Paths == PathsUpTo(MaxDepth)

\* the document has no transform style
NoTransform == [unset |-> TRUE]

\* The frame element named `name` of the document at `path`.
FrameElement(path, name) ==
    [id |-> Len(path) * (NumFrames + 1) + name,
     location |-> [x |-> name, y |-> 2 * name],
     size |-> [width |-> 2, height |-> 2],
     \* value_of_css_property('border-left-width'/'border-top-width'), in px;
     \* not readable when the property cannot be read or parsed
     border |-> IF (Len(path) + name) % 2 = 1 THEN [readable |-> TRUE, left |-> 1, top |-> 2]
                ELSE [readable |-> FALSE]]

FrameDocSize == [width |-> 2, height |-> 2]

DocSize(path) == IF path = <<>> THEN page ELSE FrameDocSize

\* The farthest scroll position of a document.
MaxScroll(path) ==
    IF path = <<>>
    THEN Point(Max(0, page.width - viewport.width),
               Max(0, page.height - viewport.height))
    ELSE Point(0, 0)

Clamp(path, p) ==
    Point(Max(0, Min(p.x, MaxScroll(path).x)), Max(0, Min(p.y, MaxScroll(path).y)))

(***************************************************************************)
(* The state a wrapper operation works on, as one record: the browser, the *)
(* EyesWebDriver fields, the operations issued so far and the exception    *)
(* raised ("" while none).                                                 *)
(***************************************************************************)
D ==
    [docs |-> docs, nativePath |-> nativePath, frames |-> frames,
     originStates |-> originStates, posStates |-> posStates,
     cssPosition |-> cssPosition, ops |-> <<>>, exc |-> ""]

Raise(d, e) == [d EXCEPT !.exc = e]

Log(d, op) == [d EXCEPT !.ops = Append(@, op)]

\* window.scrollTo(x, y) run in the current browsing context.
BrowserScrollTo(d, p) ==
    LET moved == IF scrollable
                 THEN [d EXCEPT !.docs[d.nativePath].scroll = Clamp(d.nativePath, p)]
                 ELSE d
    IN Log(moved, <<"scrollTo", p.x, p.y>>)

\* get_screenshot_as_base64 decoded: the viewport of the top-level document,
\* shifted by its scroll position and its CSS translation.
Shift(doc) ==
    IF doc.transform = NoTransform THEN doc.scroll
    ELSE Point(doc.scroll.x + doc.transform.x, doc.scroll.y + doc.transform.y)

Screenshot(d) ==
    LET at == Shift(d.docs[<<>>])
    IN PngImage(viewport.width, viewport.height,
                [j \in 1..viewport.height |->
                    <<[n |-> viewport.width, x0 |-> at.x, y |-> at.y + j - 1]>>])

(***************************************************************************)
(* _webdriver.py: ScrollPositionProvider and CSSTranslatePositionProvider  *)
(***************************************************************************)
ScrollGetCurrentPosition(d) == d.docs[d.nativePath].scroll

ScrollSetPosition(d, point) == BrowserScrollTo(d, point)

\* _origin_position_provider (always a ScrollPositionProvider)
OriginPushState(d) ==
    [d EXCEPT !.originStates = Append(@, ScrollGetCurrentPosition(d))]

OriginPopState(d) ==
    LET n == Len(d.originStates)
    IN ScrollSetPosition([d EXCEPT !.originStates = SubSeq(@, 1, n - 1)],
                         d.originStates[n])

CssSetTransform(d, transform) ==
    Log([d EXCEPT !.docs[d.nativePath].transform = transform],
        <<"setTransform", transform>>)

\* _position_provider, of the kind stitch_mode asks for
get_current_position(d) ==
    IF stitchMode = "Scroll" THEN ScrollGetCurrentPosition(d) ELSE d.cssPosition

set_position(d, point) ==
    IF stitchMode = "Scroll" THEN ScrollSetPosition(d, point)
    ELSE [CssSetTransform(d, point) EXCEPT !.cssPosition = point]

push_state(d) ==
    IF stitchMode = "Scroll"
    THEN [d EXCEPT !.posStates = Append(@, ScrollGetCurrentPosition(d))]
    ELSE [d EXCEPT !.posStates = Append(@, d.docs[d.nativePath].transform)]

pop_state(d) ==
    LET n == Len(d.posStates)
        popped == [d EXCEPT !.posStates = SubSeq(@, 1, n - 1)]
    IN IF stitchMode = "Scroll" THEN ScrollSetPosition(popped, d.posStates[n])
       ELSE CssSetTransform(popped, d.posStates[n])

(***************************************************************************)
(* _webdriver.py: EyesFrame, EyesWebDriver._will_switch_to, _EyesSwitchTo  *)
(***************************************************************************)
EyesFrame(reference, location, size, id_, parent_scroll_position) ==
    [reference |-> reference, location |-> location, size |-> size, id_ |-> id_,
     parent_scroll_position |-> parent_scroll_position]

None == [none |-> TRUE]

PARENT_FRAME == [parent_frame |-> 1]

\* EyesFrame.is_same_frame_chain
is_same_frame_chain_SameLength(frame_chain1, frame_chain2) ==
    Len(frame_chain1) = Len(frame_chain2)

is_same_frame_chain(frame_chain1, frame_chain2) ==
    LET cl1 == Len(frame_chain1)
        cl2 == Len(frame_chain2)
    IN IF cl1 # cl2 THEN FALSE
       ELSE \A i \in 1..cl1 : frame_chain1[i].id_ = frame_chain2[i].id_

FrameIds(chain) == [i \in 1..Len(chain) |-> chain[i].id_]

_will_switch_to(d, frame_reference, frame_element) ==
    IF frame_element # None
    THEN LET parent_scroll_position == get_current_position(d)
             frame_left_border_width ==
                 IF ~frame_element.border.readable THEN 0
                 ELSE frame_element.border.left
             frame_top_border_width ==
                 IF ~frame_element.border.readable THEN 0
                 ELSE frame_element.border.top
             frame_location ==
                 [x |-> frame_element.location.x + frame_left_border_width,
                  y |-> frame_element.location.y + frame_top_border_width]
         IN [d EXCEPT !.frames =
                Append(@, EyesFrame(frame_reference, frame_location,
                                    frame_element.size, frame_element.id,
                                    parent_scroll_position))]
    ELSE IF frame_reference = PARENT_FRAME
         THEN [d EXCEPT !.frames = SubSeq(@, 1, Len(@) - 1)]
         ELSE [d EXCEPT !.frames = <<>>]

\* _EyesSwitchTo.frame: the element is looked up in the context the wrapped
\* driver is in, the chain is updated, then the wrapped driver switches.
switch_to_frame(d, frame_reference) ==
    LET frame_element == FrameElement(d.nativePath, frame_reference)
        tracked == _will_switch_to(d, frame_reference, frame_element)
    IN Log([tracked EXCEPT !.nativePath = Append(@, frame_reference)],
           <<"frame", frame_reference>>)

\* _EyesSwitchTo.frame(element) for a WebElement that is no frame (a div, say;
\* element 0 of the document): frame_element is the reference itself, the
\* chain is updated from its location and size, and then the wrapped driver's
\* switch_to.frame raises NoSuchFrameException and stays where it is.
switch_to_frame_NoFrame(d) ==
    LET frame_element == FrameElement(d.nativePath, 0)
        tracked == _will_switch_to(d, 0, frame_element)
    IN Raise(Log(tracked, <<"frame", 0>>), "NoSuchFrameException")

\* _EyesSwitchTo.frames.  Its first statement for a frame of the chain is
\* self._driver.set_position(...): EyesWebDriver defines scroll_to but no
\* set_position, and create_proxy_interface forwards only the wrapped
\* driver's own public methods, of which a Selenium/Appium driver has none
\* of that name: the call raises AttributeError before anything is done.
switch_to_frames(d, frame_chain) ==
    IF frame_chain = <<>> THEN d ELSE Raise(d, "AttributeError")

switch_to_default_content(d) ==
    IF d.frames # <<>>
    THEN Log([_will_switch_to(d, None, None) EXCEPT !.nativePath = <<>>],
             <<"default_content">>)
    ELSE d

switch_to_parent_frame(d) ==
    IF d.frames # <<>>
    THEN LET chain == SubSeq(d.frames, 1, Len(d.frames) - 1)
             popped == _will_switch_to(d, PARENT_FRAME, None)
         IN switch_to_frames(switch_to_default_content(popped), chain)
    ELSE d

\* EyesWebDriver.get: the chain is dropped and the wrapped driver loads the
\* page anew in the top-level context.
get(d) ==
    Log([d EXCEPT !.frames = <<>>, !.nativePath = <<>>,
                  !.docs = [p \in Paths |-> [scroll |-> Point(0, 0),
                                             transform |-> NoTransform]]],
        <<"get">>)

\* a scroll_to that leaves the page where it is
scroll_to_Nowhere(d, point) == d

scroll_to(d, point) == set_position(d, point)

get_entire_page_size(d) == DocSize(d.nativePath)

\* a reset_origin that does not look where the browser went
reset_origin_Unchecked(d) == ScrollSetPosition(OriginPushState(d), Point(0, 0))

\* reset_origin: raises when the browser is not at (0, 0) afterwards.
reset_origin(d) ==
    LET pushed == OriginPushState(d)
        moved == ScrollSetPosition(pushed, Point(0, 0))
        current_scroll_position == ScrollGetCurrentPosition(moved)
    IN IF current_scroll_position.x # 0 \/ current_scroll_position.y # 0
       THEN Raise(OriginPopState(moved), "EyesError")
       ELSE moved

\* a restore_origin that leaves the saved state where it is
restore_origin_Skipped(d) == d

restore_origin(d) == OriginPopState(d)

save_position(d) == push_state(d)

restore_position(d) == pop_state(d)

_MAX_SCROLL_BAR_SIZE == 50

_MIN_SCREENSHOT_PART_HEIGHT == 10

\* the part size without the margin for scroll bars
screenshot_part_size_NoMargin(screenshot) ==
    [width |-> screenshot.width, height |-> screenshot.height]

screenshot_part_size(screenshot) ==
    [width |-> screenshot.width,
     height |-> Max(screenshot.height - _MAX_SCROLL_BAR_SIZE,
                    _MIN_SCREENSHOT_PART_HEIGHT)]

(***************************************************************************)
(* _webdriver.py: EyesScreenshot.  The driver of a screenshot is the       *)
(* record of what it answers: [frame_chain, viewport_size,                 *)
(* entire_page_size, current_position].                                    *)
(***************************************************************************)
\* Point.offset
offset(self, dx, dy) == Point(self.x + dx, self.y + dy)

\* The loop over the inner frames of calc_frame_location_in_screenshot.
RECURSIVE InnerFramesLocation(_, _)
InnerFramesLocation(location_in_screenshot, inner_frames) ==
    IF inner_frames = <<>> THEN location_in_screenshot
    ELSE LET frame == Head(inner_frames)
         IN InnerFramesLocation(
                Point(location_in_screenshot.x
                          + frame.location.x - frame.parent_scroll_position.x,
                      location_in_screenshot.y
                          + frame.location.y - frame.parent_scroll_position.y),
                Tail(inner_frames))

\* a variant that subtracts the first frame's parent scroll in every case
calc_frame_location_in_screenshot_AlwaysScrolled(frame_chain, is_viewport_screenshot) ==
    InnerFramesLocation(Point(frame_chain[1].location.x
                                  - frame_chain[1].parent_scroll_position.x,
                              frame_chain[1].location.y
                                  - frame_chain[1].parent_scroll_position.y),
                        Tail(frame_chain))

calc_frame_location_in_screenshot(frame_chain, is_viewport_screenshot) ==
    LET first_frame == frame_chain[1]
        location_in_screenshot ==
            IF is_viewport_screenshot
            THEN Point(first_frame.location.x - first_frame.parent_scroll_position.x,
                       first_frame.location.y - first_frame.parent_scroll_position.y)
            ELSE Point(first_frame.location.x, first_frame.location.y)
    IN InnerFramesLocation(location_in_screenshot, Tail(frame_chain))

\* EyesScreenshot.__init__, for a screenshot image that is given
EyesScreenshot(driver, screenshot, is_viewport_screenshot_, frame_location_in_screenshot_) ==
    LET viewport_size == driver.viewport_size
        frame_chain == driver.frame_chain
        frame_size == IF frame_chain # <<>> THEN frame_chain[Len(frame_chain)].size
                      ELSE driver.entire_page_size
        scroll_position == driver.current_position
        is_viewport_screenshot ==
            IF is_viewport_screenshot_ = None
            THEN screenshot.width <= viewport_size.width
                 /\ screenshot.height <= viewport_size.height
            ELSE is_viewport_screenshot_.value
        frame_location_in_screenshot ==
            IF frame_location_in_screenshot_ = None
            THEN IF frame_chain # <<>>
                 THEN calc_frame_location_in_screenshot(frame_chain,
                                                        is_viewport_screenshot)
                 ELSE IF is_viewport_screenshot
                      THEN offset(Point(0, 0), 0 - scroll_position.x,
                                  0 - scroll_position.y)
                      ELSE Point(0, 0)
            ELSE frame_location_in_screenshot_
    IN [_driver |-> driver,
        _screenshot |-> screenshot,
        _viewport_size |-> viewport_size,
        _frame_chain |-> frame_chain,
        _frame_size |-> frame_size,
        _scroll_position |-> scroll_position,
        _is_viewport_screenshot |-> is_viewport_screenshot,
        _frame_location_in_screenshot |-> frame_location_in_screenshot,
        _frame_screenshot_intersect |->
            intersect(Region(frame_location_in_screenshot.x,
                             frame_location_in_screenshot.y,
                             frame_size.width, frame_size.height),
                      Region(0, 0, screenshot.width, screenshot.height))]

get_location_relative_to_frame_viewport(self, location) ==
    IF self._frame_chain # <<>> \/ self._is_viewport_screenshot
    THEN [x |-> location.x - self._scroll_position.x,
          y |-> location.y - self._scroll_position.y]
    ELSE [x |-> location.x, y |-> location.y]

\* get_element_region_in_frame_viewport: [exc, value]
get_element_region_in_frame_viewport_NoClip(self, element) ==
    LET relative_location ==
            get_location_relative_to_frame_viewport(self, element.location)
    IN IF element.size.width <= 0 \/ element.size.height <= 0
       THEN [exc |-> "OutOfBoundsError", value |-> None]
       ELSE [exc |-> "",
             value |-> Region(Max(relative_location.x, 0), Max(relative_location.y, 0),
                              element.size.width, element.size.height)]

get_element_region_in_frame_viewport(self, element) ==
    LET relative_location ==
            get_location_relative_to_frame_viewport(self, element.location)
        x0 == relative_location.x
        y0 == relative_location.y
        width == IF x0 < 0 THEN element.size.width - (0 - x0) ELSE element.size.width
        x == IF x0 < 0 THEN 0 ELSE x0
        height == IF y0 < 0 THEN element.size.height - (0 - y0)
                  ELSE element.size.height
        y == IF y0 < 0 THEN 0 ELSE y0
    IN IF width <= 0 \/ height <= 0
       THEN [exc |-> "OutOfBoundsError", value |-> None]
       ELSE [exc |-> "", value |-> Region(x, y, width, height)]

\* a variant that shifts the region and does not clip it
get_intersected_region_Unclipped(self, region_) ==
    Region(region_.left + self._frame_location_in_screenshot.x,
           region_.top + self._frame_location_in_screenshot.y,
           region_.width, region_.height)

get_intersected_region(self, region_) ==
    intersect(Region(region_.left + self._frame_location_in_screenshot.x,
                     region_.top + self._frame_location_in_screenshot.y,
                     region_.width, region_.height),
              self._frame_screenshot_intersect)

\* PngImage.get_subimage: [exc, value]
get_subimage(self, region_) ==
    IF is_empty(region_) THEN [exc |-> "EyesError", value |-> None]
    ELSE LET x_start == region_.left
             y_start == region_.top
             result_pixels ==
                 [y_offset \in 1..region_.height |->
                     RowTake(RowDrop(self.pixel_bytes[y_start + y_offset], x_start),
                             region_.width)]
         IN [exc |-> "",
             value |-> PngImage(region_.width, region_.height, result_pixels)]

\* get_sub_screenshot_by_region: [exc, value]
get_sub_screenshot_by_region(self, region_) ==
    LET sub_screenshot_region == get_intersected_region(self, region_)
        sub_screenshot_frame_location == Point(0 - region_.left, 0 - region_.top)
        screenshot == get_subimage(self._screenshot, sub_screenshot_region)
    IN IF is_empty(sub_screenshot_region)
       THEN [exc |-> "OutOfBoundsError", value |-> None]
       ELSE IF screenshot.exc # "" THEN [exc |-> screenshot.exc, value |-> None]
       ELSE [exc |-> "",
             value |-> EyesScreenshot(self._driver, screenshot.value,
                                      [value |-> self._is_viewport_screenshot],
                                      sub_screenshot_frame_location)]

(***************************************************************************)
(* core/agent_connector.py and _agent_connector.py: the long request.      *)
(* A response is [status, location]: its status code and whether it has a  *)
(* Location header.  Delays are in milliseconds.                           *)
(***************************************************************************)
Response(status, location) == [status |-> status, location |-> location]

NoResponse == [status |-> 0, location |-> FALSE]

\* The responses a server script is made of.
ResponseKinds ==
    {Response(200, FALSE), Response(202, TRUE), Response(202, FALSE),
     Response(201, TRUE), Response(410, TRUE), Response(410, FALSE),
     Response(500, TRUE)}

RECURSIVE ScriptsUpTo(_)
ScriptsUpTo(n) ==
    IF n = 0 THEN {<<>>}
    ELSE LET shorter == ScriptsUpTo(n - 1)
         IN shorter \cup {Append(sc, r) : sc \in shorter, r \in ResponseKinds}

LONG_REQUEST_DELAY_MS == 2000

MAX_LONG_REQUEST_DELAY_MS == 10000

\* a loop whose delay has no upper limit
long_request_loop_delay_Uncapped(d) == (d * 3) \div 2

\* a loop that doubles the delay
long_request_loop_delay_Doubled(d) == Min(MAX_LONG_REQUEST_DELAY_MS, d * 2)

\* _long_request_loop: delay = min(MAX, floor(delay * 1.5))
long_request_loop_delay(d) == Min(MAX_LONG_REQUEST_DELAY_MS, (d * 3) \div 2)

\* a loop that goes on while the poll is answered 202
long_request_loop_again_While202(r) == r.status = 202

\* _long_request_loop: the loop polls again unless status_code != ok
long_request_loop_again(r) == r.status = 200

\* _send_long_request: delay = 2 (seconds)
send_long_request_delay == 2 * 1000

\* _send_long_request: delay = min(10, delay * 1.5), in seconds
send_long_request_next_delay(d) == Min(10 * 1000, (d * 3) \div 2)

\* _parse_response_with_json_data: response.raise_for_status() raises
\* requests' HTTPError for a status of 400 and above; [exc, value]
parse_response_with_json_data_NoRaise(r) == [exc |-> "", value |-> r]

parse_response_with_json_data(r) ==
    IF r.status >= 400 THEN [exc |-> "HTTPError", value |-> NoResponse]
    ELSE [exc |-> "", value |-> r]

NotParsed == [exc |-> "", value |-> NoResponse]

\* The ways a PUT of _upload_data ends: a response with a status code, or an
\* exception of requests.  [status, exc]
PutEnds ==
    {[status |-> 200, exc |-> ""], [status |-> 201, exc |-> ""],
     [status |-> 403, exc |-> ""], [status |-> 500, exc |-> ""],
     [status |-> 0, exc |-> "ConnectionError"]}

\* AgentConnector._upload_data without its decorator: [exc, value]
upload_data(put) ==
    IF put.exc # "" THEN [exc |-> put.exc, value |-> FALSE]
    ELSE IF put.status \in {200, 201} THEN [exc |-> "", value |-> TRUE]
    ELSE [exc |-> "EyesError", value |-> FALSE]

\* @retry(delays=(0.5, 1, 10), exception=EyesError): the delays, in ms
upload_data_delays_Two == <<500, 1000>>

upload_data_delays == <<500, 1000, 10000>>

\* The ways the long request of render_info ends: a response with a status
\* code and the keys of its json, or an exception (EyesError of
\* _long_request_check_status, an exception of requests).
RenderEnds ==
    {[exc |-> "", status |-> 200, json |-> {"resultsUrl", "accessToken"}],
     [exc |-> "", status |-> 200, json |-> {}],
     [exc |-> "", status |-> 500, json |-> {}],
     [exc |-> "EyesError", status |-> 410, json |-> {}],
     [exc |-> "ConnectionError", status |-> 0, json |-> {}]}

NoRender == [exc |-> "", status |-> 0, json |-> {}]

\* AgentConnector.render_info: [exc, value]
render_info(end) ==
    IF end.exc # "" THEN [exc |-> end.exc, value |-> {}]
    ELSE IF end.status >= 400 THEN [exc |-> "EyesError", value |-> {}]
    ELSE [exc |-> "", value |-> end.json]

\* The upload part at rest, for the specifications of the other parts.
RetryIdle ==
    /\ renderEnd = NoRender
    /\ tryPc = "idle"
    /\ tryOutcome = "none"
    /\ tryResult = None
    /\ putScript0 = <<>>
    /\ putScript = <<>>
    /\ attempts = 0
    /\ problems = <<>>
    /\ reports = <<>>
    /\ uploadSleeps = <<>>
    /\ uploadOutcome = "none"

\* The long request part at rest, for the specifications of the other parts.
LrIdle ==
    /\ client = "none"
    /\ script0 = <<>>
    /\ script = <<>>
    /\ lrpc = "idle"
    /\ response = NoResponse
    /\ origin = "none"
    /\ delay = 0
    /\ sleeps = <<>>
    /\ sent = <<>>
    /\ urls = <<>>
    /\ lrOutcome = "none"
    /\ lrResult = NoResponse
    /\ parsed = NotParsed

(***************************************************************************)
(* eyes.py, _agent_connector.py, test_results.py: the session of an Eyes   *)
(* instance.  The server is an external collaborator: it receives start,   *)
(* match and stop requests and answers them.                               *)
(***************************************************************************)
NoSession == [none |-> TRUE]

\* status=None, the default of TestResults.__init__
NoStatus == "None"

Statuses == {"Passed", "Unresolved", "Failed"}

\* TestResults.__init__ (the match counts are left out)
TestResults(status) == [_status |-> status, is_new |-> NoStatus, url |-> NoStatus]

\* TestResultsStatus.get_status: status.lower() raises for None
get_status(status) ==
    IF status = NoStatus THEN [exc |-> "AttributeError", value |-> NoStatus]
    ELSE [exc |-> "", value |-> status]

\* AgentConnector.start_session (_agent_connector.py): the session the server
\* created (201) or found (200)
start_session(session_id, status_code) ==
    [session_id |-> session_id, is_new_session |-> (status_code = 201)]

\* AgentConnector.stop_session (_agent_connector.py): pr is the parsed
\* response; TestResults is built from its nine counts
stop_session(pr) == TestResults(NoStatus)

\* The api keys a caller sets, and the one the environment holds.
ApiKeys == {[text |-> "key"]}

\* os.environ[name], for a name the environment defines
environ_get(name) == [text |-> "env"]

\* The ways the server's answer makes a stop_session call end: "" (a result),
\* EyesError (core/agent_connector.py, _long_request_check_status) or
\* requests' HTTPError (response.raise_for_status()).
StopFailures == {"", "EyesError", "HTTPError"}

Msg(kind, session_id) == [kind |-> kind, session_id |-> session_id]

\* The frame chains the driver may be in when a check is called.
CheckFrameChains ==
    {<<>>, <<EyesFrame(1, Point(0, 0), FrameDocSize, 1, Point(0, 0))>>}

\* The Eyes part at rest, for the specifications of the other parts.
\* Eyes.__init__: no driver, no names
NoAttrs == [_driver |-> None, _app_name |-> None, _test_name |-> None]

\* The drivers and the names open() is called with.
Ref(id) == [id |-> id]

EyesIdle ==
    /\ is_open = FALSE
    /\ running_session = NoSession
    /\ failure_reports = "OnClose"
    /\ api_key = None
    /\ environ = {}
    /\ wire = <<>>
    /\ startedSinceOpen = FALSE
    /\ startedByFirst = <<>>
    /\ eyesCall = [name |-> "none"]
    /\ eyesOutcome = "none"
    /\ eyesResult = NoSession
    /\ eyesAttrs = NoAttrs

(***************************************************************************)
(* The pages the driver is tried on, and the state a call starts from.     *)
(***************************************************************************)
Scenarios ==
    { [page |-> [width |-> 800, height |-> 2400],
       viewport |-> [width |-> 800, height |-> 650], framed |-> FALSE],
      [page |-> [width |-> 30, height |-> 25],
       viewport |-> [width |-> 20, height |-> 12], framed |-> TRUE],
      [page |-> [width |-> 20, height |-> 150],
       viewport |-> [width |-> 20, height |-> 70], framed |-> FALSE],
      [page |-> [width |-> 20, height |-> 12],
       viewport |-> [width |-> 20, height |-> 12], framed |-> TRUE],
      [page |-> [width |-> 2, height |-> 11],
       viewport |-> [width |-> 1, height |-> 1], framed |-> FALSE] }

NoLocal ==
    [original_frame |-> <<>>, entire_page_size |-> None, stitched_image |-> None,
     screenshot_parts |-> <<>>, next_part |-> 0, result |-> None]

FreshDocs == [p \in Paths |-> [scroll |-> Point(0, 0), transform |-> NoTransform]]

Snapshot ==
    [frames |-> frames, nativePath |-> nativePath, docs |-> docs,
     originStates |-> originStates, posStates |-> posStates]

\* The browser window and the connectors at rest.
NoWindow == [none |-> TRUE]

VpIdle ==
    /\ win = NoWindow
    /\ winEnv = NoWindow
    /\ required = NoWindow

ConnIdle ==
    /\ default_headers = None
    /\ connectors = <<>>
    /\ requests = <<>>

\* The driver part at rest, for the specifications of the other parts.
DrvIdle ==
    /\ page = [width |-> 1, height |-> 1]
    /\ viewport = [width |-> 1, height |-> 1]
    /\ scrollable = TRUE
    /\ framed = FALSE
    /\ docs = <<>>
    /\ nativePath = <<>>
    /\ stitchMode = "Scroll"
    /\ frames = <<>>
    /\ originStates = <<>>
    /\ posStates = <<>>
    /\ cssPosition = Point(0, 0)
    /\ pc = "idle"
    /\ call = "none"
    /\ outcome = "none"
    /\ ops = <<>>
    /\ pre = <<>>
    /\ local = NoLocal

(***************************************************************************)
(* Specification of the geometry functions: the inputs are drawn in Init   *)
(* and one action applies the function.                                    *)
(***************************************************************************)
GeomRegions ==
    {Region(l, t, w, h) : l \in (0 - MaxCoord)..MaxCoord, t \in (0 - MaxCoord)..MaxCoord,
                          w \in 0..MaxSide, h \in 0..MaxSide}

GeomTiles == [width : 1..MaxTile, height : 1..MaxTile]

\* The screenshot part at rest.
ShotIdle ==
    /\ eshot = None
    /\ shotCall = [name |-> "none"]
    /\ shotOutcome = "none"
    /\ shotResult = None
    /\ png = None

\* The regions at rest.
RegionIdle ==
    /\ region = Region(0, 0, 0, 0)
    /\ tile = [width |-> 1, height |-> 1]
    /\ subRegions = <<>>
    /\ gpc = "idle"
    /\ other = Region(0, 0, 0, 0)
    /\ region0 = Region(0, 0, 0, 0)

\* The geometry part at rest, for the specifications of the other parts.
GeomIdle == RegionIdle /\ ShotIdle

GeomInit ==
    /\ region \in GeomRegions
    /\ tile \in GeomTiles
    /\ subRegions = <<>>
    /\ gpc = "input"
    /\ other = Region(0, 0, 0, 0)
    /\ region0 = region
    /\ ShotIdle
    /\ DrvIdle
    /\ VpIdle
    /\ ConnIdle
    /\ RetryIdle
    /\ LrIdle
    /\ EyesIdle

GetSubRegions ==
    /\ gpc = "input"
    /\ subRegions' = get_sub_regions(region, tile)
    /\ gpc' = "tiled"
    /\ UNCHANGED <<region, tile, other, region0, shotVars, drvVars, lrVars,
                   eyesVars, retryVars, vpVars, connVars>>

GeomNext == GetSubRegions

GeomSpec == GeomInit /\ [][GeomNext]_vars

(***************************************************************************)
(* Specification of Region.intersect: two regions are drawn in Init (sides *)
(* of -1 included: the constructor accepts them) and one action calls      *)
(* region.intersect(other).                                                *)
(***************************************************************************)
IntersectRegions ==
    {Region(l, t, w, h) : l \in (0 - MaxICoord)..MaxICoord,
                          t \in (0 - MaxICoord)..MaxICoord,
                          w \in (0 - 1)..MaxISide, h \in (0 - 1)..MaxISide}

IntersectInit ==
    /\ region \in IntersectRegions
    /\ other \in IntersectRegions
    /\ region0 = region
    /\ tile = [width |-> 1, height |-> 1]
    /\ subRegions = <<>>
    /\ gpc = "input"
    /\ ShotIdle
    /\ DrvIdle
    /\ VpIdle
    /\ ConnIdle
    /\ RetryIdle
    /\ LrIdle
    /\ EyesIdle

Intersect ==
    /\ gpc = "input"
    /\ region' = intersect(region, other)
    /\ gpc' = "intersected"
    /\ UNCHANGED <<tile, subRegions, other, region0, shotVars, drvVars, lrVars,
                   eyesVars, retryVars, vpVars, connVars>>

IntersectNext == Intersect

IntersectSpec == IntersectInit /\ [][IntersectNext]_vars

(***************************************************************************)
(* Specification of EyesScreenshot: a screenshot is built in Init from     *)
(* what the driver answers and an image; one method is called on it.       *)
(***************************************************************************)
ShotFrameChains ==
    LET outer == EyesFrame(1, [x |-> 1, y |-> 1], [width |-> 2, height |-> 3], 1,
                           Point(0, 1))
        inner == EyesFrame(1, [x |-> 1, y |-> 0], [width |-> 1, height |-> 2], 2,
                           Point(0, 0))
    IN {<<>>, <<outer>>, <<outer, inner>>}

ShotDrivers ==
    [frame_chain : ShotFrameChains,
     viewport_size : {[width |-> 3, height |-> 3]},
     entire_page_size : {[width |-> 4, height |-> 5]},
     current_position : {Point(0, 0), Point(1, 2)}]

\* A screenshot image of the document pixels (0, 0) .. (width-1, height-1).
ShotImage(width, height) ==
    PngImage(width, height,
             [j \in 1..height |-> <<[n |-> width, x0 |-> 0, y |-> j - 1]>>])

ShotImages == {ShotImage(3, 3), ShotImage(4, 5)}

Element(location, size) == [location |-> location, size |-> size]

ShotElements ==
    {Element([x |-> x, y |-> y], [width |-> w, height |-> h]) :
        x \in (0 - MaxElCoord)..MaxElCoord, y \in (0 - MaxElCoord)..MaxElCoord,
        w \in 0..MaxElSide, h \in 0..MaxElSide}
    \cup {Element([x |-> 0 - 10, y |-> 5], [width |-> 50, height |-> 20])}

ShotRegions ==
    {Region(l, t, w, h) : l \in (0 - 1)..(MaxElCoord + 2),
                          t \in (0 - 1)..(MaxElCoord + 3),
                          w \in 0..MaxElSide, h \in 0..MaxElSide}

ShotInit ==
    /\ eshot \in {EyesScreenshot(driver, screenshot, None, None) :
                     driver \in ShotDrivers, screenshot \in ShotImages}
    /\ shotCall = [name |-> "none"]
    /\ shotOutcome = "none"
    /\ shotResult = None
    /\ png = None
    /\ RegionIdle
    /\ DrvIdle
    /\ VpIdle
    /\ ConnIdle
    /\ RetryIdle
    /\ LrIdle
    /\ EyesIdle

ShotReturn(name, arg, r) ==
    /\ shotCall.name = "none"
    /\ shotCall' = [name |-> name, arg |-> arg]
    /\ shotOutcome' = IF r.exc # "" THEN r.exc ELSE "returned"
    /\ shotResult' = r.value
    /\ UNCHANGED <<eshot, png, region, tile, subRegions, gpc, other, region0, drvVars,
                   lrVars, eyesVars, retryVars, vpVars, connVars>>

GetElementRegionInFrameViewport ==
    \E element \in ShotElements :
        ShotReturn("get_element_region_in_frame_viewport", element,
                   get_element_region_in_frame_viewport(eshot, element))

GetSubScreenshotByRegion ==
    \E region_ \in ShotRegions :
        ShotReturn("get_sub_screenshot_by_region", region_,
                   get_sub_screenshot_by_region(eshot, region_))

(***************************************************************************)
(* Specification of EyesFrame.is_same_frame_chain: one call on two chains  *)
(* of frames that differ in their ids; the frames of the second chain also *)
(* differ from those of the first, one attribute at a time, in reference,  *)
(* location, size and parent scroll position.                              *)
(***************************************************************************)
ChainFrames(variants) ==
    {EyesFrame(IF v = 1 THEN "frame-b" ELSE "frame-a",
               IF v = 2 THEN [x |-> 7, y |-> 0] ELSE [x |-> 0, y |-> 0],
               IF v = 3 THEN [width |-> 9, height |-> 1] ELSE [width |-> 1, height |-> 1],
               id_,
               IF v = 4 THEN Point(0, 5) ELSE Point(0, 0)) :
        id_ \in 1..2, v \in variants}

ChainsUpTo(n, variants) == UNION {[1..k -> ChainFrames(variants)] : k \in 0..n}

FrameChainInit ==
    /\ ShotIdle
    /\ RegionIdle
    /\ DrvIdle
    /\ VpIdle
    /\ ConnIdle
    /\ RetryIdle
    /\ LrIdle
    /\ EyesIdle

IsSameFrameChain ==
    /\ shotCall.name = "none"
    /\ \E frame_chain1 \in ChainsUpTo(MaxChain, {0}),
          frame_chain2 \in ChainsUpTo(MaxChain, 0..4) :
        /\ shotCall' = [name |-> "is_same_frame_chain", frame_chain1 |-> frame_chain1,
                        frame_chain2 |-> frame_chain2]
        /\ shotOutcome' = "returned"
        /\ shotResult' = is_same_frame_chain(frame_chain1, frame_chain2)
        /\ UNCHANGED <<eshot, png, region, tile, subRegions, gpc, other, region0, drvVars,
                       lrVars, eyesVars, retryVars, vpVars, connVars>>

FrameChainNext == IsSameFrameChain

FrameChainSpec == FrameChainInit /\ [][FrameChainNext]_vars

(***************************************************************************)
(* Specification of calc_frame_location_in_screenshot: one call on a       *)
(* non-empty frame chain, for a viewport and for a full page screenshot.   *)
(***************************************************************************)
MaxLocChain == 3

LocFrames ==
    {EyesFrame("frame", location, [width |-> 1, height |-> 1], 1, parent_scroll_position) :
        location \in {[x |-> 0, y |-> 0], [x |-> 1, y |-> 2]},
        parent_scroll_position \in {Point(0, 0), Point(2, 1), Point(0, 3)}}

LocChains == UNION {[1..k -> LocFrames] : k \in 1..MaxLocChain}

CalcFrameLocationInScreenshot ==
    /\ shotCall.name = "none"
    /\ \E frame_chain \in LocChains, is_viewport_screenshot \in BOOLEAN :
        /\ shotCall' = [name |-> "calc_frame_location_in_screenshot",
                        frame_chain |-> frame_chain,
                        is_viewport_screenshot |-> is_viewport_screenshot]
        /\ shotOutcome' = "returned"
        /\ shotResult' = calc_frame_location_in_screenshot(frame_chain,
                                                           is_viewport_screenshot)
        /\ UNCHANGED <<eshot, png, region, tile, subRegions, gpc, other, region0, drvVars,
                       lrVars, eyesVars, retryVars, vpVars, connVars>>

FrameLocationNext == CalcFrameLocationInScreenshot

FrameLocationSpec == FrameChainInit /\ [][FrameLocationNext]_vars

GetIntersectedRegion ==
    \E region_ \in ShotRegions :
        ShotReturn("get_intersected_region", region_,
                   [exc |-> "", value |-> get_intersected_region(eshot, region_)])

ShotNext ==
    \/ GetElementRegionInFrameViewport
    \/ GetSubScreenshotByRegion
    \/ GetIntersectedRegion

ShotSpec == ShotInit /\ [][ShotNext]_vars

(***************************************************************************)
(* Specification of PngImage.paste: an image of 2x2 or 3x2 pixels, then up *)
(* to MaxPastes calls of paste(left, top, tile) with a tile of 1 or 2      *)
(* pixels a side.  The pixels of the k-th tile are (100 * k + column, row) *)
(* of the tile, so that every pixel of the image tells where it came from. *)
(***************************************************************************)
MaxPaste == 3
MaxPastes == 2

PasteTile(k, width, height) ==
    [j \in 1..height |-> <<[n |-> width, x0 |-> 100 * k, y |-> j - 1]>>]

PasteImages == {ShotImage(2, 2), ShotImage(3, 2)}

PasteInit ==
    /\ png \in {[image |-> image, before |-> image, calls |-> <<>>] :
                    image \in PasteImages}
    /\ eshot = None
    /\ shotCall = [name |-> "none"]
    /\ shotOutcome = "none"
    /\ shotResult = None
    /\ RegionIdle
    /\ DrvIdle
    /\ VpIdle
    /\ ConnIdle
    /\ RetryIdle
    /\ LrIdle
    /\ EyesIdle

Paste ==
    /\ Len(png.calls) < MaxPastes
    /\ \E left \in 0..MaxPaste, top \in 0..MaxPaste, width \in 1..2, height \in 1..2 :
          LET pixel_bytes_to_paste == PasteTile(Len(png.calls) + 1, width, height)
          IN png' = [image |-> paste(png.image, left, top, pixel_bytes_to_paste),
                     before |-> png.image,
                     calls |-> Append(png.calls,
                                      [left |-> left, top |-> top,
                                       pixel_bytes_to_paste |-> pixel_bytes_to_paste])]
    /\ UNCHANGED <<eshot, shotCall, shotOutcome, shotResult, region, tile, subRegions,
                   gpc, other, region0, drvVars, lrVars, eyesVars, retryVars, vpVars,
                   connVars>>

PasteNext == Paste

PasteSpec == PasteInit /\ [][PasteNext]_vars

(***************************************************************************)
(* Specification of the driver wrapper: the calls a test makes on an       *)
(* EyesWebDriver.  get_full_page_screenshot runs in steps, one per driver  *)
(* round trip group, so that a driver failure can strike between them.     *)
(***************************************************************************)
DrvInit ==
    /\ \E s \in Scenarios :
          page = s.page /\ viewport = s.viewport /\ framed = s.framed
    /\ scrollable \in BOOLEAN
    \* the page as the test left it: at its origin or scrolled to its end
    /\ \E start \in {Point(0, 0), MaxScroll(<<>>)} :
          docs = [FreshDocs EXCEPT ![<<>>].scroll = start]
    /\ nativePath = <<>>
    /\ stitchMode \in {"Scroll", "CSS"}
    /\ frames = <<>>
    /\ originStates = <<>>
    /\ posStates = <<>>
    /\ cssPosition = Point(0, 0)
    /\ pc = "idle"
    /\ call = "none"
    /\ outcome = "none"
    /\ ops = <<>>
    /\ pre = Snapshot
    /\ local = NoLocal

Commit(d) ==
    /\ docs' = d.docs
    /\ nativePath' = d.nativePath
    /\ frames' = d.frames
    /\ originStates' = d.originStates
    /\ posStates' = d.posStates
    /\ cssPosition' = d.cssPosition
    /\ ops' = d.ops
    /\ UNCHANGED <<page, viewport, scrollable, framed, stitchMode, geomVars, lrVars, eyesVars, retryVars, vpVars, connVars>>

\* A wrapper call that runs in one step.
Finish(name, d) ==
    /\ Commit(d)
    /\ call' = name
    /\ outcome' = IF d.exc = "" THEN "returned" ELSE d.exc
    /\ pre' = Snapshot
    /\ pc' = "idle"
    /\ local' = NoLocal

\* driver.switch_to.frame(ref), for a frame the current document holds
SwitchToFrame ==
    /\ pc = "idle"
    /\ framed
    /\ Len(nativePath) < MaxDepth
    /\ \E frame_reference \in 1..NumFrames :
          Finish("frame", switch_to_frame(D, frame_reference))

SwitchToDefaultContent ==
    /\ pc = "idle"
    /\ Finish("default_content", switch_to_default_content(D))

SwitchToParentFrame ==
    /\ pc = "idle"
    /\ Finish("parent_frame", switch_to_parent_frame(D))

Get ==
    /\ pc = "idle"
    /\ Finish("get", get(D))

\* Eyes.check_region_in_frame_by_selector.  The check between the two
\* switches either returns with the driver in the frame it started in, or
\* raises check_exc (the element is not found, the match fails): the
\* switch back is not in a finally clause.
check_region_in_frame_by_selector(d, frame_reference, check_exc) ==
    LET inFrame == switch_to_frame(d, frame_reference)
    IN IF check_exc # "" THEN Raise(inFrame, check_exc)
       ELSE switch_to_parent_frame(inFrame)

CheckRegionInFrameBySelector ==
    /\ pc = "idle"
    /\ framed
    /\ Len(nativePath) < MaxDepth
    /\ \E frame_reference \in 1..NumFrames, check_exc \in {"", "NoSuchElementException"} :
          Finish("check_region_in_frame_by_selector",
                 check_region_in_frame_by_selector(D, frame_reference, check_exc))

DCur == [D EXCEPT !.ops = ops]

\* original_frame = self.get_frame_chain(); self.switch_to.default_content()
FullPageBegin ==
    /\ pc = "idle"
    /\ Commit(switch_to_default_content(D))
    /\ call' = "get_full_page_screenshot"
    /\ outcome' = "none"
    /\ pre' = Snapshot
    /\ pc' = "reset"
    /\ local' = [NoLocal EXCEPT !.original_frame = frames]

Fail(d) ==
    /\ Commit(d)
    /\ outcome' = d.exc
    /\ pc' = "idle"
    /\ local' = NoLocal
    /\ UNCHANGED <<call, pre>>

Return(d, image) ==
    /\ Commit(d)
    /\ outcome' = "returned"
    /\ pc' = "idle"
    /\ local' = [NoLocal EXCEPT !.result = image]
    /\ UNCHANGED <<call, pre>>

\* self.reset_origin()
FullPageResetOrigin ==
    /\ pc = "reset"
    /\ LET d == reset_origin(DCur)
       IN IF d.exc # "" THEN Fail(d)
          ELSE /\ Commit(d)
               /\ pc' = "first"
               /\ UNCHANGED <<call, outcome, pre, local>>

\* From get_entire_page_size() to save_position(): the screenshot at (0, 0)
\* and either the early return or the list of parts.
FullPageFirstScreenshot ==
    /\ pc = "first"
    /\ LET entire_page_size == get_entire_page_size(DCur)
           waited == Log(DCur, <<"wait">>)
           shot == Log(waited, <<"screenshot">>)
           screenshot == Screenshot(shot)
       IN IF /\ screenshot.width >= entire_page_size.width
             /\ screenshot.height >= entire_page_size.height
          THEN LET d == switch_to_frames(restore_origin(shot), local.original_frame)
               IN IF d.exc # "" THEN Fail(d) ELSE Return(d, screenshot)
          ELSE LET entire_page ==
                       Region(0, 0, entire_page_size.width, entire_page_size.height)
                   screenshot_parts ==
                       get_sub_regions(entire_page, screenshot_part_size(screenshot))
               IN /\ Commit(save_position(shot))
                  /\ pc' = "parts"
                  /\ local' = [local EXCEPT !.entire_page_size = entire_page_size,
                                            !.stitched_image = screenshot,
                                            !.screenshot_parts = screenshot_parts,
                                            !.next_part = 1]
                  /\ UNCHANGED <<call, outcome, pre>>

\* One iteration of the loop over screenshot_parts.  The wrapped driver may
\* fail in scroll_to or in get_screenshot_as_base64.
FullPagePart ==
    /\ pc = "parts"
    /\ local.next_part <= Len(local.screenshot_parts)
    /\ LET part == local.screenshot_parts[local.next_part]
       IN IF part.left = 0 /\ part.top = 0
          THEN /\ local' = [local EXCEPT !.next_part = @ + 1]
               /\ UNCHANGED <<browserVars, driverVars, pc, call, outcome, ops, pre>>
               /\ UNCHANGED <<geomVars, lrVars, eyesVars, retryVars, vpVars, connVars>>
          ELSE \E failure \in {"none", "scroll_to", "get_screenshot_as_base64"} :
                 /\ failure # "none" => Len(originStates) <= MaxStack
                 /\ LET scrolled == scroll_to(DCur, Point(part.left, part.top))
                        waited == Log(scrolled, <<"wait">>)
                        current_scroll_position == get_current_position(waited)
                        read == Log(waited, <<"get_current_position",
                                              current_scroll_position.x,
                                              current_scroll_position.y>>)
                        shot == Log(read, <<"screenshot">>)
                        part_image == Screenshot(shot)
                        pasted == Log(shot, <<"paste", current_scroll_position.x,
                                              current_scroll_position.y>>)
                    IN CASE failure = "scroll_to" ->
                              Fail(Raise(DCur, "WebDriverException"))
                         [] failure = "get_screenshot_as_base64" ->
                              Fail(Raise(waited, "WebDriverException"))
                         [] OTHER ->
                              /\ Commit(pasted)
                              /\ local' =
                                   [local EXCEPT
                                      !.stitched_image =
                                          paste(@, current_scroll_position.x,
                                                current_scroll_position.y,
                                                part_image.pixel_bytes),
                                      !.next_part = @ + 1]
                              /\ UNCHANGED <<pc, call, outcome, pre>>

\* restore_position(); restore_origin(); switch_to.frames(original_frame)
FullPageRestore ==
    /\ pc = "parts"
    /\ local.next_part > Len(local.screenshot_parts)
    /\ LET d == switch_to_frames(restore_origin(restore_position(DCur)),
                                 local.original_frame)
       IN IF d.exc # "" THEN Fail(d) ELSE Return(d, local.stitched_image)

Next ==
    \/ SwitchToFrame
    \/ SwitchToDefaultContent
    \/ SwitchToParentFrame
    \/ Get
    \/ CheckRegionInFrameBySelector
    \/ FullPageBegin
    \/ FullPageResetOrigin
    \/ FullPageFirstScreenshot
    \/ FullPagePart
    \/ FullPageRestore

Init == DrvInit /\ GeomIdle /\ LrIdle /\ EyesIdle /\ RetryIdle /\ VpIdle /\ ConnIdle

Spec == Init /\ [][Next]_vars

(***************************************************************************)
(* Specification of the switches alone: the calls on driver.switch_to and  *)
(* driver.get, in any order.                                               *)
(***************************************************************************)
\* driver.switch_to.frames(chain), with a chain the test got from the driver
SwitchToFrames ==
    /\ pc = "idle"
    /\ \E frame_chain \in {<<>>, frames, pre.frames} :
          Finish("frames", switch_to_frames(D, frame_chain))

SwitchNext ==
    \/ SwitchToFrame
    \/ SwitchToFrames
    \/ SwitchToDefaultContent
    \/ SwitchToParentFrame
    \/ Get

SwitchSpec == Init /\ [][SwitchNext]_vars

(***************************************************************************)
(* Specification of the frame switches with a switch that the wrapped      *)
(* driver refuses: switch_to.frame(element) for an element of the current  *)
(* document that is no frame.                                              *)
(***************************************************************************)
SwitchToNoFrame ==
    /\ pc = "idle"
    /\ Len(frames) <= MaxDepth
    /\ Finish("frame", switch_to_frame_NoFrame(D))

SwitchFailNext ==
    \/ SwitchToFrame
    \/ SwitchToNoFrame
    \/ SwitchToDefaultContent
    \/ SwitchToParentFrame
    \/ Get

SwitchFailSpec == Init /\ [][SwitchFailNext]_vars

(***************************************************************************)
(* Specification of the driver's position provider (the one of the stitch  *)
(* mode): push_state, set_position and pop_state in any order, up to       *)
(* MaxPush states deep.  The test reads get_current_position() before each *)
(* push_state and keeps what it read in `local`, one position per state    *)
(* on the provider's list.                                                 *)
(***************************************************************************)
MaxPush == 2

PosPoints == {Point(0, 0), Point(0, 5), Point(10, 13)}

Positions == IF local = NoLocal THEN <<>> ELSE local.positions

PosCall(name, d, positions) ==
    /\ Commit(d)
    /\ call' = name
    /\ outcome' = IF d.exc = "" THEN "returned" ELSE d.exc
    /\ pre' = Snapshot
    /\ pc' = "idle"
    /\ local' = [positions |-> positions]

PushState ==
    /\ pc = "idle"
    /\ Len(posStates) < MaxPush
    /\ PosCall("push_state", push_state(D),
               Append(SubSeq(Positions, 1, Len(posStates)), get_current_position(D)))

SetPosition ==
    /\ pc = "idle"
    /\ \E point \in PosPoints : PosCall("set_position", set_position(D, point), Positions)

\* pop_state of a provider that holds a state
PopState ==
    /\ pc = "idle"
    /\ posStates # <<>>
    /\ PosCall("pop_state", pop_state(D), Positions)

PosNext ==
    \/ PushState
    \/ SetPosition
    \/ PopState

PosSpec == Init /\ [][PosNext]_vars

(***************************************************************************)
(* _viewport_size.py: set_viewport_size and the browser window it resizes. *)
(* A resize is clamped to the limits of the window manager and shows after *)
(* winEnv.lag seconds; the viewport is the window less the browser chrome, *)
(* whose height grows by one when the window is narrower than wrapBelow.   *)
(***************************************************************************)
Size(width, height) == [width |-> width, height |-> height]

WinSet(w, env, width, height) ==
    LET target == Size(Max(env.min, Min(width, env.max)),
                       Max(env.min, Min(height, env.max)))
    IN [shown |-> IF env.lag = 0 THEN target ELSE w.shown,
        target |-> target, stale |-> env.lag, sets |-> w.sets + 1]

\* time.sleep(sleep_time) with sleep_time = 1
WinSleep(w) ==
    IF w.stale = 0 THEN w
    ELSE IF w.stale = 1 THEN [w EXCEPT !.stale = 0, !.shown = w.target]
    ELSE [w EXCEPT !.stale = @ - 1]

get_window_size(w) == w.shown

get_viewport_size(w, env) ==
    Size(w.shown.width - env.chrome.width,
         w.shown.height - env.chrome.height
             - (IF w.shown.width < env.wrapBelow THEN 1 ELSE 0))

verify_size_retries == 3

\* _verify_size(to_verify, required_size): [ok, w]; viewport tells which
\* reader to_verify is
RECURSIVE verify_size(_, _, _, _, _)
verify_size(w, env, viewport_, required_size, retries) ==
    IF retries = 0 THEN [ok |-> FALSE, w |-> w]
    ELSE LET slept == WinSleep(w)
             current_size == IF viewport_ THEN get_viewport_size(slept, env)
                             ELSE get_window_size(slept)
         IN IF /\ current_size.width = required_size.width
               /\ current_size.height = required_size.height
            THEN [ok |-> TRUE, w |-> slept]
            ELSE verify_size(slept, env, viewport_, required_size, retries - 1)

\* switch_to.frames(original_frame_chain), then the exception or the return
BackToFrames(d, w, original_frame_chain, exc) ==
    LET back == switch_to_frames(d, original_frame_chain)
    IN [d |-> IF back.exc = "" THEN Raise(back, exc) ELSE back, w |-> w]

set_viewport_size(d, w, env, required_size) ==
    LET starting_size == required_size
        original_frame_chain == d.frames
        atTop == switch_to_default_content(d)
        w1 == WinSet(w, env, required_size.width, required_size.height)
        v1 == verify_size(w1, env, FALSE, starting_size, verify_size_retries)
    IN IF ~v1.ok
       THEN BackToFrames(atTop, v1.w, original_frame_chain, "TestFailedError")
       ELSE
       LET current_viewport_size == get_viewport_size(v1.w, env)
           current_browser_size == get_window_size(v1.w)
           width_to_set == 2 * current_browser_size.width - current_viewport_size.width
           height_to_set == 2 * current_browser_size.height - current_viewport_size.height
           w2 == WinSet(v1.w, env, width_to_set, height_to_set)
           v2 == verify_size(w2, env, TRUE, required_size, verify_size_retries)
       IN IF v2.ok
          THEN BackToFrames(atTop, v2.w, original_frame_chain, "")
          ELSE
          LET viewport_size2 == get_viewport_size(v2.w, env)
              browser_size2 == get_window_size(v2.w)
              updated_width ==
                  browser_size2.width + (required_size.width - viewport_size2.width)
              updated_height ==
                  browser_size2.height + (required_size.height - viewport_size2.height)
              w3 == WinSet(v2.w, env, updated_width, updated_height)
              v3 == verify_size(w3, env, TRUE, required_size, verify_size_retries)
          IN IF ~v3.ok
             THEN BackToFrames(atTop, v3.w, original_frame_chain, "TestFailedError")
             ELSE BackToFrames(atTop, v3.w, original_frame_chain, "")

\* the largest required side and the longest lag tried
MaxRequired == 4

MaxLag == 4

WinEnvs ==
    { [chrome |-> Size(cw, ch), wrapBelow |-> wb, min |-> lo, max |-> hi, lag |-> lag] :
        cw \in 0..1, ch \in 0..1, wb \in {0, MaxRequired + 1},
        lo \in {1, MaxRequired + 1}, hi \in {MaxRequired, 2 * MaxRequired},
        lag \in {0, MaxLag - 1, MaxLag} }

ViewportInit ==
    /\ page = [width |-> 30, height |-> 25]
    /\ viewport = [width |-> 20, height |-> 12]
    /\ framed = TRUE
    /\ scrollable = TRUE
    /\ docs = FreshDocs
    /\ nativePath = <<>>
    /\ stitchMode = "Scroll"
    /\ frames = <<>>
    /\ originStates = <<>>
    /\ posStates = <<>>
    /\ cssPosition = Point(0, 0)
    /\ pc = "idle"
    /\ call = "none"
    /\ outcome = "none"
    /\ ops = <<>>
    /\ pre = Snapshot
    /\ local = NoLocal
    /\ win = [shown |-> Size(MaxRequired + 1, MaxRequired + 1),
              target |-> Size(MaxRequired + 1, MaxRequired + 1),
              stale |-> 0, sets |-> 0]
    /\ winEnv \in WinEnvs
    /\ required \in {Size(x, y) : x, y \in (MaxRequired - 1)..MaxRequired}
    /\ GeomIdle
    /\ LrIdle
    /\ EyesIdle
    /\ RetryIdle
    /\ ConnIdle

\* Eyes.set_viewport_size(driver, required), once the test has switched frames
SetViewportSize ==
    /\ pc = "idle"
    /\ win.sets = 0
    /\ LET end == set_viewport_size(D, win, winEnv, required)
       IN /\ win' = end.w
          /\ docs' = end.d.docs
          /\ nativePath' = end.d.nativePath
          /\ frames' = end.d.frames
          /\ ops' = end.d.ops
          /\ outcome' = IF end.d.exc = "" THEN "returned" ELSE end.d.exc
    /\ call' = "set_viewport_size"
    /\ pre' = Snapshot
    /\ UNCHANGED <<page, viewport, scrollable, framed, stitchMode, originStates,
                   posStates, cssPosition, pc, local, winEnv, required, geomVars,
                   lrVars, eyesVars, retryVars, connVars>>

ViewportNext ==
    \/ SwitchToFrame
    \/ SetViewportSize

ViewportSpec == ViewportInit /\ [][ViewportNext]_vars

(***************************************************************************)
(* core/agent_connector.py: the class attribute _DEFAULT_HEADERS, which    *)
(* __init__ writes through self and every request reads.                   *)
(***************************************************************************)
MaxConnectors == 2

MaxRequests == 3

AgentIds == {[agent_id |-> "eyes.selenium.python/a"], [agent_id |-> "eyes.selenium.python/b"]}

\* the requests that read the header: start_session and stop_session pass
\* the dict itself, match_window, render_info and _upload_data a copy of
\* it, the polls of a long request the one entry
RequestKinds == {"start_session", "match_window", "poll"}

ConnInit ==
    /\ default_headers = None
    /\ connectors = <<>>
    /\ requests = <<>>
    /\ GeomIdle
    /\ DrvIdle
    /\ VpIdle
    /\ LrIdle
    /\ EyesIdle
    /\ RetryIdle

\* AgentConnector(server_url, full_agent_id)
NewConnector ==
    /\ Len(connectors) < MaxConnectors
    /\ \E full_agent_id \in AgentIds :
          /\ connectors' = Append(connectors, full_agent_id)
          /\ default_headers' = full_agent_id
    /\ UNCHANGED <<requests, geomVars, drvVars, lrVars, eyesVars, retryVars, vpVars>>

\* a request of connector i
ConnectorRequest ==
    /\ Len(requests) < MaxRequests
    /\ \E i \in 1..Len(connectors), kind \in RequestKinds :
          requests' = Append(requests, [connector |-> i, kind |-> kind,
                                        client |-> default_headers])
    /\ UNCHANGED <<default_headers, connectors, geomVars, drvVars, lrVars, eyesVars,
                   retryVars, vpVars>>

ConnNext ==
    \/ NewConnector
    \/ ConnectorRequest

ConnSpec == ConnInit /\ [][ConnNext]_vars

(***************************************************************************)
(* Specification of the long request: the server's script is drawn in      *)
(* Init; the client sends, the server answers with the next response of    *)
(* its script, the client acts on the answer.  A server whose script is    *)
(* used up does not answer.                                                *)
(***************************************************************************)
LrInit ==
    /\ client \in {"core", "legacy"}
    /\ script0 \in ScriptsUpTo(MaxScript)
    /\ script = script0
    /\ lrpc = "start"
    /\ response = NoResponse
    /\ origin = "none"
    /\ delay = 0
    /\ sleeps = <<>>
    /\ sent = <<>>
    /\ urls = <<>>
    /\ lrOutcome = "none"
    /\ lrResult = NoResponse
    /\ parsed = NotParsed
    /\ GeomIdle
    /\ DrvIdle
    /\ VpIdle
    /\ ConnIdle
    /\ RetryIdle
    /\ EyesIdle

\* The number of responses received: `response` is response number Answered.
Answered == Len(script0) - Len(script)

\* _long_request_check_status, 201: url = response.headers["Location"]
delete_url_Polled == urls[Len(urls)]

delete_url == Answered

\* _long_request_loop(url, delay): the Location of the 202 response that
\* _long_request_check_status has handed over, and the same url again when
\* the loop calls itself after a poll answered 200
loop_url == IF response.status = 202 THEN Answered ELSE urls[Len(urls)]

LrReturn(r) ==
    /\ lrpc' = "done"
    /\ lrOutcome' = "returned"
    /\ lrResult' = r
    /\ UNCHANGED parsed

LrRaise(e) ==
    /\ lrpc' = "done"
    /\ lrOutcome' = e
    /\ UNCHANGED <<lrResult, parsed>>

\* AgentConnector.long_request: the request is sent
CoreLongRequest ==
    /\ client = "core"
    /\ lrpc = "start"
    /\ sent' = Append(sent, "request")
    /\ urls' = Append(urls, 0)
    /\ lrpc' = "requesting"
    /\ UNCHANGED <<client, script0, script, response, origin, delay, sleeps,
                   lrOutcome, lrResult, parsed, geomVars, drvVars, eyesVars, retryVars, vpVars, connVars>>

CoreResponse ==
    /\ client = "core"
    /\ lrpc = "requesting"
    /\ script # <<>>
    /\ response' = Head(script)
    /\ script' = Tail(script)
    /\ origin' = "request"
    /\ lrpc' = "check"
    /\ UNCHANGED <<client, script0, delay, sleeps, sent, urls, lrOutcome, lrResult, parsed,
                   geomVars, drvVars, eyesVars, retryVars, vpVars, connVars>>

\* AgentConnector._long_request_check_status, up to its next request
CoreCheckStatus ==
    /\ client = "core"
    /\ lrpc = "check"
    /\ IF response.status = 200 \/ ~response.location
       THEN LrReturn(response) /\ UNCHANGED <<delay, sent, urls>>
       ELSE IF response.status = 202
       THEN /\ lrpc' = "loop"
            /\ delay' = LONG_REQUEST_DELAY_MS
            /\ UNCHANGED <<sent, urls, lrOutcome, lrResult, parsed>>
       ELSE IF response.status = 201
       THEN /\ sent' = Append(sent, "delete")
            /\ urls' = Append(urls, delete_url)
            /\ lrpc' = "deleting"
            /\ UNCHANGED <<delay, lrOutcome, lrResult, parsed>>
       ELSE LrRaise("EyesError") /\ UNCHANGED <<delay, sent, urls>>
    /\ UNCHANGED <<client, script0, script, response, origin, sleeps,
                   geomVars, drvVars, eyesVars, retryVars, vpVars, connVars>>

\* the answer to requests.delete is what the call returns
CoreDeleted ==
    /\ client = "core"
    /\ lrpc = "deleting"
    /\ script # <<>>
    /\ response' = Head(script)
    /\ script' = Tail(script)
    /\ origin' = "delete"
    /\ LrReturn(Head(script))
    /\ UNCHANGED <<client, script0, delay, sleeps, sent, urls, geomVars, drvVars,
                   eyesVars, retryVars, vpVars, connVars>>

\* AgentConnector._long_request_loop: raise the delay, sleep, GET the url
CoreLoop ==
    /\ client = "core"
    /\ lrpc = "loop"
    /\ delay' = long_request_loop_delay(delay)
    /\ sleeps' = Append(sleeps, long_request_loop_delay(delay))
    /\ sent' = Append(sent, "poll")
    /\ urls' = Append(urls, loop_url)
    /\ lrpc' = "polling"
    /\ UNCHANGED <<client, script0, script, response, origin, lrOutcome, lrResult, parsed,
                   geomVars, drvVars, eyesVars, retryVars, vpVars, connVars>>

\* ... and either hand the response back to _long_request_check_status or
\* call itself with the delay reached
CorePolled ==
    /\ client = "core"
    /\ lrpc = "polling"
    /\ script # <<>>
    /\ response' = Head(script)
    /\ script' = Tail(script)
    /\ origin' = "poll"
    /\ lrpc' = IF long_request_loop_again(Head(script)) THEN "loop" ELSE "check"
    /\ UNCHANGED <<client, script0, delay, sleeps, sent, urls, lrOutcome, lrResult, parsed,
                   geomVars, drvVars, eyesVars, retryVars, vpVars, connVars>>

\* AgentConnector._send_long_request: the request is sent, the first time or again
LegacySend ==
    /\ client = "legacy"
    /\ lrpc \in {"start", "resend"}
    /\ delay' = IF lrpc = "start" THEN send_long_request_delay ELSE delay
    /\ sent' = Append(sent, "request")
    /\ urls' = Append(urls, 0)
    /\ lrpc' = "requesting"
    /\ UNCHANGED <<client, script0, script, response, origin, sleeps,
                   lrOutcome, lrResult, parsed, geomVars, drvVars, eyesVars, retryVars, vpVars, connVars>>

\* ... return the response unless its status is 202, else sleep and go on
LegacyResponse ==
    /\ client = "legacy"
    /\ lrpc = "requesting"
    /\ script # <<>>
    /\ response' = Head(script)
    /\ script' = Tail(script)
    /\ origin' = "request"
    /\ IF Head(script).status # 202
       THEN LrReturn(Head(script)) /\ UNCHANGED <<delay, sleeps>>
       ELSE /\ sleeps' = Append(sleeps, delay)
            /\ delay' = send_long_request_next_delay(delay)
            /\ lrpc' = "resend"
            /\ UNCHANGED <<lrOutcome, lrResult, parsed>>
    /\ UNCHANGED <<client, script0, sent, urls, geomVars, drvVars, eyesVars, retryVars, vpVars, connVars>>

\* start_session / match_window / stop_session, after the long request has
\* returned: _parse_response_with_json_data(response)
SessionCallParse ==
    /\ lrpc = "done"
    /\ lrOutcome = "returned"
    /\ parsed = NotParsed
    /\ parsed' = parse_response_with_json_data(lrResult)
    /\ UNCHANGED <<client, script0, script, lrpc, response, origin, delay, sleeps,
                   sent, urls, lrOutcome, lrResult, geomVars, drvVars, eyesVars, retryVars, vpVars, connVars>>

LrNext ==
    \/ CoreLongRequest
    \/ CoreResponse
    \/ CoreCheckStatus
    \/ CoreDeleted
    \/ CoreLoop
    \/ CorePolled
    \/ LegacySend
    \/ LegacyResponse
    \/ SessionCallParse

LrSpec == LrInit /\ [][LrNext]_vars

(***************************************************************************)
(* Specification of a resource upload: how each PUT ends is drawn in Init; *)
(* one action is one pass of the loop of retry's wrapped function.         *)
(***************************************************************************)
RetryInit ==
    /\ putScript0 \in UNION {[1..n -> PutEnds] : n \in 0..MaxPuts}
    /\ putScript = putScript0
    /\ attempts = 0
    /\ problems = <<>>
    /\ reports = <<>>
    /\ uploadSleeps = <<>>
    /\ uploadOutcome = "none"
    /\ renderEnd = NoRender
    /\ tryPc = "upload"
    /\ tryOutcome = "none"
    /\ tryResult = None
    /\ GeomIdle
    /\ DrvIdle
    /\ VpIdle
    /\ ConnIdle
    /\ LrIdle
    /\ EyesIdle

\* for delay in itertools.chain(delays, [None]): try: return function(...)
\* except exception as problem: ...
UploadDataAttempt ==
    /\ tryPc = "upload"
    /\ uploadOutcome = "none"
    /\ putScript # <<>>
    /\ attempts <= Len(upload_data_delays)
    /\ LET r == upload_data(Head(putScript))
           last == attempts = Len(upload_data_delays)
       IN /\ putScript' = Tail(putScript)
          /\ attempts' = attempts + 1
          /\ IF r.exc = ""
             THEN /\ uploadOutcome' = "returned"
                  /\ UNCHANGED <<problems, reports, uploadSleeps>>
             ELSE IF r.exc # "EyesError"
             THEN /\ uploadOutcome' = r.exc
                  /\ UNCHANGED <<problems, reports, uploadSleeps>>
             ELSE /\ problems' = Append(problems, r.exc)
                  /\ IF last
                     THEN /\ reports' = Append(reports, "retryable failed definitely")
                          /\ uploadOutcome' = r.exc
                          /\ UNCHANGED uploadSleeps
                     ELSE /\ reports' = Append(reports, "retryable failed")
                          /\ uploadSleeps' =
                                 Append(uploadSleeps, upload_data_delays[attempts + 1])
                          /\ UNCHANGED uploadOutcome
    /\ UNCHANGED <<putScript0, tryVars, geomVars, drvVars, lrVars, eyesVars, vpVars,
                   connVars>>

RetryNext == UploadDataAttempt

RetrySpec == RetryInit /\ [][RetryNext]_vars

(***************************************************************************)
(* Specification of post_dom_capture: how the render-info request and each *)
(* PUT end is drawn in Init; _try_upload_data asks for the render info,    *)
(* uploads under retry and returns the url or None.                        *)
(***************************************************************************)
TryUploadInit ==
    /\ renderEnd \in RenderEnds
    /\ putScript0 \in IF "resultsUrl" \in render_info(renderEnd).value
                      THEN UNION {[1..n -> PutEnds] : n \in 0..MaxPuts}
                      ELSE {<<>>}
    /\ putScript = putScript0
    /\ attempts = 0
    /\ problems = <<>>
    /\ reports = <<>>
    /\ uploadSleeps = <<>>
    /\ uploadOutcome = "none"
    /\ tryPc = "render_info"
    /\ tryOutcome = "none"
    /\ tryResult = None
    /\ GeomIdle
    /\ DrvIdle
    /\ VpIdle
    /\ ConnIdle
    /\ LrIdle
    /\ EyesIdle

TryFrame ==
    UNCHANGED <<renderEnd, putScript0, putScript, attempts, problems, reports,
                uploadSleeps, uploadOutcome, geomVars, drvVars, lrVars, eyesVars,
                vpVars, connVars>>

\* post_dom_capture -> _try_upload_data: rendering_info = self.render_info(),
\* which stands before the try block, and the test for "resultsUrl"
TryRenderInfo ==
    /\ tryPc = "render_info"
    /\ LET rendering_info == render_info(renderEnd)
       IN IF rendering_info.exc # ""
          THEN /\ tryPc' = "done"
               /\ tryOutcome' = rendering_info.exc
               /\ UNCHANGED tryResult
          ELSE IF "resultsUrl" \in rendering_info.value
          THEN /\ tryPc' = "upload"
               /\ UNCHANGED <<tryOutcome, tryResult>>
          ELSE /\ tryPc' = "done"
               /\ tryOutcome' = "returned"
               /\ tryResult' = None
    /\ TryFrame

\* ... if self._upload_data(...): return target_url; except Exception: log
TryUploaded ==
    /\ tryPc = "upload"
    /\ uploadOutcome # "none"
    /\ tryPc' = "done"
    /\ tryOutcome' = "returned"
    /\ tryResult' = IF uploadOutcome = "returned" THEN [target_url |-> "resultsUrl"]
                    ELSE None
    /\ TryFrame

TryUploadNext ==
    \/ TryRenderInfo
    \/ UploadDataAttempt
    \/ TryUploaded

TryUploadSpec == TryUploadInit /\ [][TryUploadNext]_vars

(***************************************************************************)
(* Specification of the Eyes session: the public calls of one instance, in *)
(* any order, against a server that answers every request; its answer to   *)
(* the stop request of an abort may be an error.                           *)
(***************************************************************************)
EyesInit ==
    /\ is_open = FALSE
    /\ running_session = NoSession
    /\ failure_reports \in {"Immediate", "OnClose"}
    /\ api_key \in {None} \cup ApiKeys
    /\ environ \in SUBSET {"APPLITOOLS_API_KEY"}
    /\ wire = <<>>
    /\ startedSinceOpen = FALSE
    /\ startedByFirst = <<>>
    /\ eyesCall = [name |-> "none"]
    /\ eyesOutcome = "none"
    /\ eyesResult = NoSession
    /\ eyesAttrs = NoAttrs
    /\ GeomIdle
    /\ DrvIdle
    /\ VpIdle
    /\ ConnIdle
    /\ RetryIdle
    /\ LrIdle

\* abort_if_not_closed, as a change of the session and of the wire, and the
\* exception it ends with when stop_session ends with stop_exc
AbortedSession_OnlyOnSuccess(stop_exc) ==
    IF stop_exc = "" THEN NoSession ELSE running_session

AbortedSession(stop_exc) == NoSession

AbortedWire ==
    IF running_session # NoSession
    THEN Append(wire, Msg("stop_aborted", running_session.session_id))
    ELSE wire

AbortedExc(stop_exc) ==
    IF running_session # NoSession /\ stop_exc # "EyesError" THEN stop_exc ELSE ""

\* The api_key setter
SetApiKey ==
    \E key \in ApiKeys :
        /\ api_key' = key
        /\ eyesCall' = [name |-> "api_key", key |-> key]
        /\ eyesOutcome' = "returned"
        /\ eyesResult' = NoSession
        /\ UNCHANGED <<is_open, running_session, failure_reports, environ, wire,
                       startedSinceOpen, startedByFirst, eyesAttrs, geomVars, drvVars, lrVars, retryVars, vpVars, connVars>>

\* Eyes.open
Open ==
    \E stop_exc \in StopFailures, driver \in 1..NumDrivers, test_name \in 1..NumNames :
        /\ eyesCall' = [name |-> "open", was_open |-> is_open,
                        no_key |-> (api_key = None
                                    /\ "APPLITOOLS_API_KEY" \notin environ)]
        /\ eyesResult' = NoSession
        /\ IF api_key = None /\ "APPLITOOLS_API_KEY" \notin environ
           THEN /\ eyesOutcome' = "EyesError"
                /\ UNCHANGED <<api_key, is_open, startedSinceOpen, wire,
                               running_session, eyesAttrs>>
           ELSE /\ api_key' = IF api_key = None
                              THEN environ_get("APPLITOOLS_API_KEY") ELSE api_key
                /\ IF is_open
                   THEN \* self.abort_if_not_closed(); raise EyesError
                        /\ running_session = NoSession => stop_exc = ""
                        /\ Len(AbortedWire) <= MaxWire
                        /\ wire' = AbortedWire
                        /\ running_session' = AbortedSession(stop_exc)
                        /\ eyesOutcome' = IF AbortedExc(stop_exc) # ""
                                          THEN AbortedExc(stop_exc) ELSE "EyesError"
                        /\ eyesAttrs' = [eyesAttrs EXCEPT !._driver = Ref(driver)]
                        /\ UNCHANGED <<is_open, startedSinceOpen>>
                   ELSE /\ stop_exc = ""
                        /\ is_open' = TRUE
                        /\ startedSinceOpen' = FALSE
                        /\ eyesOutcome' = "returned"
                        /\ eyesAttrs' = [_driver |-> Ref(driver),
                                         _app_name |-> Ref(test_name),
                                         _test_name |-> Ref(test_name)]
                        /\ UNCHANGED <<wire, running_session>>
        /\ UNCHANGED <<failure_reports, environ, startedByFirst, geomVars, drvVars,
                       lrVars, retryVars, vpVars, connVars>>

\* MatchWindowTask.match_window: one match request for the running session
match_window(w, session) == Append(w, Msg("match", session.session_id))

handle_match_result_Silent(as_expected, session) == "returned"

\* Eyes._handle_match_result
handle_match_result(as_expected, session) ==
    IF ~as_expected /\ ~session.is_new_session /\ failure_reports = "Immediate"
    THEN "TestFailedError"
    ELSE "returned"

\* Eyes.check_window / check_region: _prepare_to_check, match_window,
\* _handle_match_result
Check ==
    \E frame_chain \in CheckFrameChains, viewport_ok \in BOOLEAN,
       status_code \in {200, 201}, as_expected \in BOOLEAN :
        /\ eyesCall' = [name |-> "check", was_open |-> is_open,
                        started |-> (running_session # NoSession),
                        frame_chain |-> frame_chain, viewport_ok |-> viewport_ok,
                        status_code |-> status_code, as_expected |-> as_expected]
        /\ eyesResult' = NoSession
        /\ IF ~is_open
           THEN /\ eyesOutcome' = "EyesError"
                /\ UNCHANGED <<wire, running_session, startedByFirst, startedSinceOpen>>
           ELSE /\ IF running_session # NoSession
                   THEN /\ Len(wire) < MaxWire
                        /\ wire' = match_window(wire, running_session)
                        /\ eyesOutcome' = handle_match_result(as_expected, running_session)
                        /\ UNCHANGED <<running_session, startedByFirst, startedSinceOpen>>
                   ELSE \* _start_session: _assign_viewport_size ends, in its
                        \* finally, with switch_to.frames(original_frame_chain)
                        IF switch_to_frames(D, frame_chain).exc # ""
                        THEN /\ eyesOutcome' = switch_to_frames(D, frame_chain).exc
                             /\ UNCHANGED <<wire, running_session, startedByFirst,
                                            startedSinceOpen>>
                        ELSE IF ~viewport_ok
                        THEN /\ eyesOutcome' = "TestFailedError"
                             /\ UNCHANGED <<wire, running_session, startedByFirst,
                                            startedSinceOpen>>
                        ELSE LET session_id == Len(startedByFirst) + 1
                                 session == start_session(session_id, status_code)
                             IN /\ session_id <= MaxSessions
                                /\ Len(wire) + 1 < MaxWire
                                /\ running_session' = session
                                /\ startedSinceOpen' = TRUE
                                /\ startedByFirst' =
                                       Append(startedByFirst, ~startedSinceOpen)
                                /\ wire' = match_window(
                                               Append(wire, Msg("start", session_id)),
                                               session)
                                /\ eyesOutcome' = handle_match_result(as_expected, session)
        /\ UNCHANGED <<is_open, failure_reports, api_key, environ, eyesAttrs, geomVars,
                       drvVars, lrVars, retryVars, vpVars, connVars>>

\* Eyes.close, from results.status on
close_outcome(results, raise_ex) ==
    LET status == get_status(results._status)
    IN IF status.exc # "" THEN status.exc
       ELSE IF status.value = "Unresolved"
       THEN IF results.is_new
            THEN IF raise_ex THEN "NewTestError" ELSE "returned"
            ELSE IF raise_ex THEN "DiffsFoundError" ELSE "returned"
       ELSE IF status.value = "Failed"
       THEN IF raise_ex THEN "TestFailedError" ELSE "returned"
       ELSE "returned"

\* Eyes.close
Close ==
    \E raise_ex \in BOOLEAN, server_status \in Statuses :
        /\ running_session' = NoSession
        /\ IF ~is_open
           THEN /\ eyesCall' = [name |-> "close", raise_ex |-> raise_ex, stopped |-> FALSE]
                /\ eyesOutcome' = "ValueError"
                /\ eyesResult' = NoSession
                /\ UNCHANGED <<is_open, wire>>
           ELSE /\ is_open' = FALSE
                /\ IF running_session = NoSession
                   THEN /\ eyesCall' = [name |-> "close", raise_ex |-> raise_ex,
                                        stopped |-> FALSE]
                        /\ eyesOutcome' = "returned"
                        /\ eyesResult' = TestResults(NoStatus)
                        /\ UNCHANGED wire
                   ELSE LET pr == [status |-> server_status]
                            results == [stop_session(pr) EXCEPT
                                           !.is_new = running_session.is_new_session,
                                           !.url = running_session.session_id]
                        IN /\ Len(wire) < MaxWire
                           /\ wire' = Append(wire, Msg("stop", running_session.session_id))
                           /\ eyesCall' = [name |-> "close", raise_ex |-> raise_ex,
                                           stopped |-> TRUE, status |-> server_status,
                                           is_new |-> running_session.is_new_session]
                           /\ eyesOutcome' = close_outcome(results, raise_ex)
                           /\ eyesResult' =
                                  IF close_outcome(results, raise_ex) = "AttributeError"
                                  THEN NoSession ELSE results
        /\ UNCHANGED <<failure_reports, api_key, environ, startedSinceOpen,
                       startedByFirst, eyesAttrs, geomVars, drvVars, lrVars, retryVars, vpVars, connVars>>

\* Eyes.abort_if_not_closed
AbortIfNotClosed ==
    \E stop_exc \in StopFailures :
        /\ running_session = NoSession => stop_exc = ""
        /\ Len(AbortedWire) <= MaxWire
        /\ wire' = AbortedWire
        /\ running_session' = AbortedSession(stop_exc)
        /\ eyesCall' = [name |-> "abort_if_not_closed",
                        running |-> (running_session # NoSession),
                        stop_exc |-> stop_exc]
        /\ eyesOutcome' = IF AbortedExc(stop_exc) # ""
                          THEN AbortedExc(stop_exc) ELSE "returned"
        /\ eyesResult' = NoSession
        /\ UNCHANGED <<is_open, failure_reports, api_key, environ, startedSinceOpen,
                       startedByFirst, eyesAttrs, geomVars, drvVars, lrVars, retryVars, vpVars, connVars>>

EyesNext ==
    \/ SetApiKey
    \/ Open
    \/ Check
    \/ Close
    \/ AbortIfNotClosed

EyesSpec == EyesInit /\ [][EyesNext]_vars

(***************************************************************************)
(* C1: for every region R and tile size T (sides >= 1) the regions         *)
(* returned by R.get_sub_regions(T) are pairwise non-overlapping, lie      *)
(* inside R, are no larger than T, and cover exactly the pixels of R.      *)
(* Stated as the claim reads; the code violates it when left or top is     *)
(* not 0, because the loops run from left/top up to width/height instead   *)
(* of right/bottom.                                                        *)
(***************************************************************************)
C1_TilesPartitionRegion ==
    gpc = "tiled" =>
        /\ \A i \in 1..Len(subRegions) :
              /\ Pixels(subRegions[i]) \subseteq Pixels(region)
              /\ subRegions[i].width <= tile.width
              /\ subRegions[i].height <= tile.height
              /\ subRegions[i].width >= 0
              /\ subRegions[i].height >= 0
        /\ \A i, j \in 1..Len(subRegions) :
              i # j => Pixels(subRegions[i]) \cap Pixels(subRegions[j]) = {}
        /\ UNION {Pixels(subRegions[i]) : i \in 1..Len(subRegions)} = Pixels(region)

(***************************************************************************)
(* Shorthands for the claims about get_full_page_screenshot.               *)
(***************************************************************************)
FullPageCalled == call = "get_full_page_screenshot"

FullPageEnded == FullPageCalled /\ pc = "idle" /\ outcome # "none"

FullPageReturned == FullPageEnded /\ outcome = "returned"

FullPageRaised == FullPageEnded /\ outcome # "returned"

IsScreenshotOp(op) == op[1] = "screenshot"

IsNativeSwitch(op) == op[1] \in {"default_content", "frame"}

\* The page of the call fits into one screenshot.
PageFits == viewport.width >= page.width /\ viewport.height >= page.height

(***************************************************************************)
(* C2: for an entire page of 800x2400 and screenshots of 800x650 (the      *)
(* browser scrolls, clamping at 2400 - 650), get_full_page_screenshot      *)
(* tiles the page into exactly the four 800x600 parts at y = 0, 600, 1200, *)
(* 1800, and the image it returns is 800x2400, every row of it showing the *)
(* page row of the same number (each part was pasted where the browser     *)
(* reported to be).                                                        *)
(***************************************************************************)
C2Scenario ==
    /\ page = [width |-> 800, height |-> 2400]
    /\ viewport = [width |-> 800, height |-> 650]
    /\ stitchMode = "Scroll"
    /\ scrollable

C2_FourTilesStitchTo800x2400 ==
    (C2Scenario /\ FullPageCalled) =>
        /\ pc = "parts" =>
              local.screenshot_parts =
                  <<Region(0, 0, 800, 600), Region(0, 600, 800, 600),
                    Region(0, 1200, 800, 600), Region(0, 1800, 800, 600)>>
        /\ FullPageReturned =>
              /\ local.result.width = 800
              /\ local.result.height = 2400
              /\ Len(local.result.pixel_bytes) = 2400
              /\ \A j \in 1..2400 :
                    local.result.pixel_bytes[j] = <<[n |-> 800, x0 |-> 0, y |-> j - 1]>>
              /\ Len(SelectSeq(ops, IsScreenshotOp)) = 4

C2_Witness ==
    /\ C2Scenario
    /\ FullPageReturned
    /\ local.result.height = 2400
    /\ pre.docs[<<>>].scroll = Point(0, 1750)

(***************************************************************************)
(* C3: when the first screenshot, taken at (0, 0), covers the entire page, *)
(* get_full_page_screenshot returns exactly that screenshot, having taken  *)
(* one screenshot and scrolled only to reset and to restore the origin,    *)
(* and the scroll position and the frame chain are the ones from before    *)
(* the call.  Stated as the claim reads; the code violates it when the     *)
(* call is made inside a frame.                                            *)
(***************************************************************************)
C3_ShortCircuitReturnsFirstScreenshot ==
    (FullPageEnded /\ PageFits /\ Len(SelectSeq(ops, IsScreenshotOp)) >= 1) =>
        /\ outcome = "returned"
        /\ local.result = PngImage(viewport.width, viewport.height,
                                   [j \in 1..viewport.height |->
                                       <<[n |-> viewport.width, x0 |-> 0, y |-> j - 1]>>])
        /\ Len(SelectSeq(ops, IsScreenshotOp)) = 1
        /\ docs[<<>>].scroll = pre.docs[<<>>].scroll
        /\ FrameIds(frames) = FrameIds(pre.frames)

C5_FailureRestoresState ==
    FullPageRaised =>
        /\ \A p \in Paths : docs[p].scroll = pre.docs[p].scroll
        /\ FrameIds(frames) = FrameIds(pre.frames)

(***************************************************************************)
(* C6: switch_to.parent_frame() with a tracked chain of depth n >= 1       *)
(* returns with the chain of the first n-1 frames, having issued one       *)
(* native switch to the default content followed by the n-1 native frame   *)
(* switches in chain order; with an empty chain it issues nothing.         *)
(* Stated as the claim reads; the code violates it for every n >= 1.       *)
(***************************************************************************)
C6_ParentFrameReplaysChain ==
    (call = "parent_frame" /\ pc = "idle") =>
        LET n == Len(pre.frames)
        IN IF n = 0
           THEN outcome = "returned" /\ ops = <<>> /\ frames = <<>>
           ELSE /\ outcome = "returned"
                /\ FrameIds(frames) = SubSeq(FrameIds(pre.frames), 1, n - 1)
                /\ SelectSeq(ops, IsNativeSwitch) =
                      <<<<"default_content">>>>
                          \o [i \in 1..(n - 1) |-> <<"frame", pre.frames[i].reference>>]

(***************************************************************************)
(* Shorthands for the claims about the long request.                       *)
(***************************************************************************)
IsPrefix(a, b) == Len(a) <= Len(b) /\ a = SubSeq(b, 1, Len(a))

\* the script [202, 202, 202, 200], each 202 with a Location header
C7Script ==
    <<Response(202, TRUE), Response(202, TRUE), Response(202, TRUE),
      Response(200, FALSE)>>

StopKinds == {"stop", "stop_aborted"}

\* close stopped a running session
CloseStopped == eyesCall.name = "close" /\ eyesCall.stopped

(***************************************************************************)
(* C9: the server sees, for each session, one start, then matches, then at *)
(* most one stop: no match or stop for a session not started, nothing for  *)
(* a session after its stop; and a session is started only by the first    *)
(* check after open that reaches the server, never by open (so that one    *)
(* open starts one session at most).  Stated as the claim reads; the code  *)
(* violates the last part, since abort_if_not_closed leaves the instance   *)
(* open.                                                                   *)
(***************************************************************************)
C9_SessionProtocol ==
    /\ \A i \in 1..Len(wire) :
          /\ wire[i].kind = "start" =>
                \A j \in 1..(i - 1) : wire[j].session_id # wire[i].session_id
          /\ wire[i].kind # "start" =>
                \E j \in 1..(i - 1) :
                    wire[j] = Msg("start", wire[i].session_id)
          /\ wire[i].kind \in StopKinds =>
                \A j \in (i + 1)..Len(wire) : wire[j].session_id # wire[i].session_id
    /\ Cardinality({i \in 1..Len(wire) : wire[i].kind = "start"}) = Len(startedByFirst)
    /\ eyesCall.name = "open" => (wire = <<>> \/ wire[Len(wire)].kind # "start")
    /\ \A k \in 1..Len(startedByFirst) : startedByFirst[k]

(***************************************************************************)
(* C10: when close() stops a running session, with raise_ex=True it raises *)
(* NewTestError for Unresolved on a new session, DiffsFoundError for       *)
(* Unresolved on an existing one, TestFailedError for Failed, and returns  *)
(* the results for Passed; with raise_ex=False it returns the results for  *)
(* every status.  Stated as the claim reads; the code violates it for      *)
(* every status.                                                           *)
(***************************************************************************)
C10_CloseRaisesByStatus ==
    CloseStopped =>
        /\ eyesResult # NoSession
        /\ eyesOutcome =
              IF ~eyesCall.raise_ex THEN "returned"
              ELSE IF eyesCall.status = "Unresolved" /\ eyesCall.is_new THEN "NewTestError"
              ELSE IF eyesCall.status = "Unresolved" THEN "DiffsFoundError"
              ELSE IF eyesCall.status = "Failed" THEN "TestFailedError"
              ELSE "returned"

(***************************************************************************)
(* C11: the test-outcome errors and the calls that raise them.  open       *)
(* raises none of them.  A check (check_window, check_region,              *)
(* check_region_by_element) never raises NewTestError or DiffsFoundError,  *)
(* and raises TestFailedError exactly when the instance is open and either *)
(* the match is not as expected, the session is not new and                *)
(* failure_reports is Immediate, or the viewport size could not be         *)
(* assigned when the session was to be started.  close(raise_ex=False)     *)
(* raises none of them.                                                    *)
(***************************************************************************)
TestOutcomeErrors == {"NewTestError", "DiffsFoundError", "TestFailedError"}

C12_OpenFailsWithEyesError ==
    eyesCall.name = "open" =>
        /\ eyesCall.was_open => eyesOutcome = "EyesError"
        /\ eyesCall.no_key => (eyesOutcome = "EyesError" /\ ~is_open)
        /\ (eyesCall.was_open \/ eyesCall.no_key) =>
              (wire = <<>> \/ wire[Len(wire)].kind # "start")

(***************************************************************************)
(* C13: abort_if_not_closed sends stop(aborted=true, updateBaseline=false) *)
(* exactly once when a session is running and nothing when none is; after  *)
(* it the running-session handle is empty, also when the stop call fails;  *)
(* an EyesError of the stop call is not raised.                            *)
(***************************************************************************)
C13_AbortStopsOnce ==
    [][eyesCall'.name = "abort_if_not_closed" =>
          /\ wire' = IF running_session # NoSession
                     THEN Append(wire, Msg("stop_aborted",
                                           running_session.session_id))
                     ELSE wire
          /\ running_session' = NoSession
          /\ eyesCall'.stop_exc \in {"", "EyesError"} => eyesOutcome' = "returned"
      ]_vars

\* a running session was aborted, the stop call failing with EyesError
C13_Witness ==
    /\ eyesCall.name = "abort_if_not_closed"
    /\ eyesCall.running
    /\ eyesCall.stop_exc = "EyesError"
    /\ eyesOutcome = "returned"
    /\ running_session = NoSession
    /\ wire[Len(wire)].kind = "stop_aborted"

(***************************************************************************)
(* C14: for regions R and R2 of non-negative width and height, after       *)
(* R.intersect(R2): R is empty whenever R.overlaps(R2) was false; when it  *)
(* was true R holds the rectangle the two closed rectangles share, of      *)
(* width and height >= 0, and that rectangle is_empty() only when it is    *)
(* the single point (0, 0).                                                *)
(***************************************************************************)
NonNegative(r) == r.width >= 0 /\ r.height >= 0

\* the points two regions share, their edges included
SharedPoints(a, b) ==
    {<<x, y>> : x \in a.left..Right(a), y \in a.top..Bottom(a)}
        \cap {<<x, y>> : x \in b.left..Right(b), y \in b.top..Bottom(b)}

C14_EmptyIffNoSharedPointButOrigin ==
    (gpc = "intersected" /\ NonNegative(region0) /\ NonNegative(other)) =>
        /\ overlaps(region0, other) <=> SharedPoints(region0, other) # {}
        /\ ~overlaps(region0, other) => region = Region(0, 0, 0, 0)
        /\ overlaps(region0, other) =>
              /\ NonNegative(region)
              /\ {<<x, y>> : x \in region.left..Right(region),
                             y \in region.top..Bottom(region)}
                     = SharedPoints(region0, other)
        /\ region = Region(0, 0, 0, 0) <=>
              SharedPoints(region0, other) \subseteq {<<0, 0>>}

\* two regions that overlap only in the point (0, 0) were intersected
C14_Witness ==
    /\ gpc = "intersected"
    /\ NonNegative(region0) /\ NonNegative(other)
    /\ region0.width > 0 /\ other.width > 0
    /\ overlaps(region0, other)
    /\ is_empty(region)

\* C14 as stated: empty after intersect exactly when the regions did not overlap
C14_EmptyIffNotOverlapping ==
    (gpc = "intersected" /\ NonNegative(region0) /\ NonNegative(other)) =>
        (is_empty(region) <=> ~overlaps(region0, other))

(***************************************************************************)
(* C15: for all regions R and R2, R.intersect(R2) leaves in R the region   *)
(* that R2.intersect(R) leaves in R2.                                      *)
(***************************************************************************)
C15_IntersectCommutes ==
    gpc = "intersected" => region = intersect(other, region0)

\* two different regions that overlap in part were intersected
C15_Witness ==
    /\ gpc = "intersected"
    /\ region0 # other
    /\ region # region0
    /\ region # other
    /\ region.width > 0 /\ region.height > 0

(***************************************************************************)
(* C16: get_element_region_in_frame_viewport(element) returns              *)
(* Region(max(x,0), max(y,0), w - max(-x,0), h - max(-y,0)), (w, h) being  *)
(* the element size and (x, y) its location, less the screenshot's scroll  *)
(* position when the screenshot has a frame chain or is a viewport         *)
(* screenshot; it raises OutOfBoundsError exactly when the clipped width   *)
(* or height is <= 0.  Location (-10, 5), size 50x20 and no scroll give    *)
(* Region(0, 5, 40, 20).                                                   *)
(***************************************************************************)
C16_ElementRegionClipped ==
    shotCall.name = "get_element_region_in_frame_viewport" =>
        LET adjusted == eshot._frame_chain # <<>> \/ eshot._is_viewport_screenshot
            x == shotCall.arg.location.x
                     - (IF adjusted THEN eshot._scroll_position.x ELSE 0)
            y == shotCall.arg.location.y
                     - (IF adjusted THEN eshot._scroll_position.y ELSE 0)
            w == shotCall.arg.size.width - Max(0 - x, 0)
            h == shotCall.arg.size.height - Max(0 - y, 0)
        IN /\ (w <= 0 \/ h <= 0) <=> shotOutcome = "OutOfBoundsError"
           /\ ~(w <= 0 \/ h <= 0) =>
                 /\ shotOutcome = "returned"
                 /\ shotResult = Region(Max(x, 0), Max(y, 0), w, h)
           /\ (/\ shotCall.arg = Element([x |-> 0 - 10, y |-> 5],
                                         [width |-> 50, height |-> 20])
               /\ eshot._scroll_position = Point(0, 0)) =>
                 shotResult = Region(0, 5, 40, 20)

\* an element that starts left of a scrolled viewport screenshot was clipped
C16_Witness ==
    /\ shotCall.name = "get_element_region_in_frame_viewport"
    /\ eshot._is_viewport_screenshot
    /\ eshot._scroll_position # Point(0, 0)
    /\ shotCall.arg.location.x - eshot._scroll_position.x < 0
    /\ shotOutcome = "returned"
    /\ shotResult.width < shotCall.arg.size.width

(***************************************************************************)
(* C17: get_sub_screenshot_by_region(region) raises OutOfBoundsError       *)
(* whenever the part of the region inside the captured frame area has      *)
(* width <= 0 or height <= 0, and produces a sub-screenshot only when      *)
(* that part has positive width and height.                                *)
(***************************************************************************)
\* width and height of what two rectangles have in common
CommonSize(a, b) ==
    [width |-> Min(Right(a), Right(b)) - Max(a.left, b.left),
     height |-> Min(Bottom(a), Bottom(b)) - Max(a.top, b.top)]

\* the part of the frame the screenshot image shows; a size only when none
CapturedFrameArea ==
    LET frame == Region(eshot._frame_location_in_screenshot.x,
                        eshot._frame_location_in_screenshot.y,
                        eshot._frame_size.width, eshot._frame_size.height)
        image == Region(0, 0, eshot._screenshot.width, eshot._screenshot.height)
        size == CommonSize(frame, image)
    IN Region(Max(frame.left, image.left), Max(frame.top, image.top),
              size.width, size.height)

RegionPartInFrameArea ==
    LET in_screenshot ==
            Region(shotCall.arg.left + eshot._frame_location_in_screenshot.x,
                   shotCall.arg.top + eshot._frame_location_in_screenshot.y,
                   shotCall.arg.width, shotCall.arg.height)
    IN IF CapturedFrameArea.width <= 0 \/ CapturedFrameArea.height <= 0
       THEN [width |-> 0, height |-> 0]
       ELSE CommonSize(in_screenshot, CapturedFrameArea)

C17_SubScreenshotNeedsArea ==
    shotCall.name = "get_sub_screenshot_by_region" =>
        /\ (RegionPartInFrameArea.width <= 0 \/ RegionPartInFrameArea.height <= 0)
              => shotOutcome = "OutOfBoundsError"
        /\ shotOutcome = "returned" =>
              (RegionPartInFrameArea.width > 0 /\ RegionPartInFrameArea.height > 0)

(***************************************************************************)
(* C18: EyesFrame.is_same_frame_chain(c1, c2) is true exactly when the two *)
(* chains have the same length and pairwise equal frame ids; so it is      *)
(* reflexive and symmetric, false whenever the lengths differ, and         *)
(* independent of the frames' location, size, reference and parent scroll  *)
(* position.                                                               *)
(***************************************************************************)
C18_SameChainIffSameIds ==
    shotCall.name = "is_same_frame_chain" =>
        LET c1 == shotCall.frame_chain1
            c2 == shotCall.frame_chain2
        IN /\ shotResult <=>
                 /\ Len(c1) = Len(c2)
                 /\ \A i \in 1..Len(c1) : c1[i].id_ = c2[i].id_
           /\ c1 = c2 => shotResult
           /\ shotResult = is_same_frame_chain(c2, c1)
           /\ Len(c1) # Len(c2) => ~shotResult

\* two chains of two frames with the same ids, whose frames differ in
\* reference, location, size or parent scroll position, were found the same
C18_Witness ==
    /\ shotCall.name = "is_same_frame_chain"
    /\ Len(shotCall.frame_chain1) = 2
    /\ Len(shotCall.frame_chain2) = 2
    /\ shotCall.frame_chain1[1] # shotCall.frame_chain2[1]
    /\ shotCall.frame_chain1[2] # shotCall.frame_chain2[2]
    /\ shotResult = TRUE

(***************************************************************************)
(* C19: when a response received during a long request, the first one or  *)
(* a poll response, has status 410 Gone, the session call (start, match    *)
(* or stop) sends no further request, and when it has ended it has raised  *)
(* an error and returned no result.                                        *)
(***************************************************************************)
\* the responses the client has received so far
Received == SubSeq(script0, 1, Len(script0) - Len(script))

Gone == \E i \in 1..Len(Received) : Received[i].status = 410

C19_GoneEndsTheCall ==
    Gone =>
        /\ Received[Len(Received)].status = 410
        /\ Len(sent) = Len(Received)
        /\ lrpc \in {"check", "done"}
        /\ lrpc = "done" =>
              \/ lrOutcome = "EyesError" /\ parsed = NotParsed
              \/ lrOutcome = "returned" /\ parsed \in {NotParsed,
                     [exc |-> "HTTPError", value |-> NoResponse]}
        /\ (lrpc = "done" /\ lrOutcome = "returned") => lrResult.status = 410

\* a poll of the core client was answered 410 with no Location header; the
\* call has raised
C19_Witness ==
    /\ client = "core"
    /\ origin = "poll"
    /\ response = Response(410, FALSE)
    /\ lrpc = "done"
    /\ parsed.exc = "HTTPError"

(***************************************************************************)
(* C20: _upload_data is attempted at most 4 times.  After the 1st, 2nd and *)
(* 3rd attempt that fails with EyesError the failure is reported and the   *)
(* client sleeps 0.5 s, 1 s and 10 s; a 4th failure is reported and        *)
(* raised; the first attempt that succeeds returns with no further         *)
(* attempt; an error of another class is raised at once.                   *)
(***************************************************************************)
\* the PUTs made so far and how each attempt ended
Tried == [i \in 1..attempts |-> upload_data(putScript0[i])]

ServiceErrors(n) == \A i \in 1..n : Tried[i].exc = "EyesError"

C20_UploadRetriedThreeTimes ==
    /\ attempts <= 4
    /\ Len(putScript) = Len(putScript0) - attempts
    /\ uploadOutcome = "none" =>
          /\ attempts <= 3
          /\ ServiceErrors(attempts)
          /\ uploadSleeps = SubSeq(<<500, 1000, 10000>>, 1, attempts)
          /\ reports = [i \in 1..attempts |-> "retryable failed"]
    /\ uploadOutcome = "returned" =>
          /\ ServiceErrors(attempts - 1)
          /\ Tried[attempts] = [exc |-> "", value |-> TRUE]
          /\ uploadSleeps = SubSeq(<<500, 1000, 10000>>, 1, attempts - 1)
          /\ reports = [i \in 1..(attempts - 1) |-> "retryable failed"]
    /\ uploadOutcome = "EyesError" =>
          /\ attempts = 4
          /\ ServiceErrors(4)
          /\ uploadSleeps = <<500, 1000, 10000>>
          /\ reports = <<"retryable failed", "retryable failed", "retryable failed",
                         "retryable failed definitely">>
    /\ uploadOutcome \notin {"none", "returned", "EyesError"} =>
          /\ ServiceErrors(attempts - 1)
          /\ Tried[attempts].exc = uploadOutcome
          /\ uploadSleeps = SubSeq(<<500, 1000, 10000>>, 1, attempts - 1)
          /\ reports = [i \in 1..(attempts - 1) |-> "retryable failed"]

\* four attempts failed with a service error although a fifth would succeed
C20_Witness ==
    /\ uploadOutcome = "EyesError"
    /\ attempts = 4
    /\ Len(putScript0) = 5
    /\ upload_data(putScript0[5]).exc = ""
    /\ uploadSleeps = <<500, 1000, 10000>>

(***************************************************************************)
(* C21: post_dom_capture / _try_upload_data never raises: whether the      *)
(* render-info request fails or the PUT fails after its retries, the call  *)
(* returns, with no url.                                                   *)
(***************************************************************************)
C21_OptionalUploadNeverRaises ==
    /\ tryOutcome \in {"none", "returned"}
    /\ (tryPc = "done" /\ tryResult # None) =>
          (render_info(renderEnd).exc = "" /\ uploadOutcome = "returned")

(***************************************************************************)
(* C22: when check_region_in_frame_by_selector returns, the tracked frame  *)
(* chain has the frame ids it had before the call and the native driver is *)
(* in the browsing context it was in before the call.  Stated as the claim *)
(* reads; the code violates it when called from the default content.       *)
(***************************************************************************)
C22_CheckInFrameReturnsToCaller ==
    (call = "check_region_in_frame_by_selector" /\ pc = "idle"
         /\ outcome = "returned") =>
        /\ FrameIds(frames) = FrameIds(pre.frames)
        /\ nativePath = pre.nativePath

(***************************************************************************)
(* C23: when set_viewport_size returns, the viewport read from the driver  *)
(* is the required size; when the resizes do not achieve the size it       *)
(* raises TestFailedError, and it never requests more than three resizes;  *)
(* on return and on TestFailedError the driver is back in the frame chain  *)
(* of the entry.  Stated as the claim reads; the code violates the second  *)
(* part when called inside a frame.                                        *)
(***************************************************************************)
SetViewportSizeEnded == call = "set_viewport_size" /\ pc = "idle"

C23_ViewportSetOrTestFailed ==
    SetViewportSizeEnded =>
        /\ outcome = "returned" => get_viewport_size(win, winEnv) = required
        /\ get_viewport_size(win, winEnv) # required => outcome = "TestFailedError"
        /\ win.sets <= 3
        /\ outcome \in {"returned", "TestFailedError"} =>
              /\ FrameIds(frames) = FrameIds(pre.frames)
              /\ nativePath = pre.nativePath

(***************************************************************************)
(* C24: every request of a connector carries the x-applitools-eyes-client  *)
(* value this connector was constructed with, whatever connectors were     *)
(* constructed besides it.  Stated as the claim reads; the code violates   *)
(* it once a second connector has another agent id.                        *)
(***************************************************************************)
C24_RequestsCarryOwnClient ==
    \A r \in 1..Len(requests) :
        requests[r].client = connectors[requests[r].connector]

(***************************************************************************)
(* Shorthands for the claims about the loop over the screenshot parts.     *)
(***************************************************************************)
NotOrigin(part) == ~(part.left = 0 /\ part.top = 0)

InPartsLoop == FullPageCalled /\ pc = "parts"

\* the parts the loop has handled so far that are not the one at (0, 0)
PartsDone == SelectSeq(SubSeq(local.screenshot_parts, 1, local.next_part - 1), NotOrigin)

FirstScreenshotAt == CHOOSE i \in 1..Len(ops) :
                        /\ IsScreenshotOp(ops[i])
                        /\ \A j \in 1..(i - 1) : ~IsScreenshotOp(ops[j])

\* what the loop has issued: everything after the screenshot at (0, 0)
LoopOps == SubSeq(ops, FirstScreenshotAt + 1, Len(ops))

ScrollOp(part) ==
    IF stitchMode = "Scroll" THEN <<"scrollTo", part.left, part.top>>
    ELSE <<"setTransform", Point(part.left, part.top)>>

RowMajor(parts) ==
    \A i, j \in 1..Len(parts) :
        i < j => \/ parts[i].top < parts[j].top
                 \/ parts[i].top = parts[j].top /\ parts[i].left < parts[j].left

(***************************************************************************)
(* C25: the parts other than the one at (0, 0) are handled one at a time   *)
(* in row-major order, each by exactly one scroll to its top-left, one     *)
(* wait, one read of the position reached, one screenshot and one paste at *)
(* the position read, in this order; nothing is issued for the part at     *)
(* (0, 0).                                                                 *)
(***************************************************************************)
C25_OneScrollWaitReadShotPastePerPart ==
    InPartsLoop =>
        /\ RowMajor(local.screenshot_parts)
        /\ Len(LoopOps) = 5 * Len(PartsDone)
        /\ \A i \in 1..Len(PartsDone) :
              LET at == 5 * (i - 1)
              IN /\ LoopOps[at + 1] = ScrollOp(PartsDone[i])
                 /\ LoopOps[at + 2] = <<"wait">>
                 /\ LoopOps[at + 3][1] = "get_current_position"
                 /\ LoopOps[at + 4] = <<"screenshot">>
                 /\ LoopOps[at + 5] = <<"paste", LoopOps[at + 3][2], LoopOps[at + 3][3]>>

\* the loop is through, and a part was pasted away from its own origin
C25_Witness ==
    /\ InPartsLoop
    /\ local.next_part > Len(local.screenshot_parts)
    /\ Len(PartsDone) >= 2
    /\ \E i \in 1..Len(PartsDone) :
          LoopOps[5 * i] # <<"paste", PartsDone[i].left, PartsDone[i].top>>
(***************************************************************************)
(* C26: when the browser is not at (0, 0) after reset_origin has scrolled  *)
(* there, get_full_page_screenshot ends with EyesError at once: it has     *)
(* issued that one scroll and the scroll back to the position saved, no    *)
(* screenshot, and the origin provider's stack is as deep as before.       *)
(***************************************************************************)
OriginNotReached ==
    /\ FullPageCalled
    /\ pc = "reset"
    /\ ScrollGetCurrentPosition(ScrollSetPosition(DCur, Point(0, 0))) # Point(0, 0)

C26_OriginNotReachedRaises ==
    [][OriginNotReached =>
          LET saved == ScrollGetCurrentPosition(DCur)
          IN /\ pc' = "idle"
             /\ outcome' = "EyesError"
             /\ ops' = ops \o <<<<"scrollTo", 0, 0>>, <<"scrollTo", saved.x, saved.y>>>>
             /\ SelectSeq(ops', IsScreenshotOp) = <<>>
             /\ originStates' = originStates]_vars

C26_Witness ==
    /\ FullPageRaised
    /\ outcome = "EyesError"
    /\ docs[<<>>].scroll # Point(0, 0)
    /\ Len(ops) >= 2
    /\ ops[Len(ops) - 1] = <<"scrollTo", 0, 0>>

(***************************************************************************)
(* C27: the part size is the width of the first screenshot by its height   *)
(* less 50 but at least 10; the list of parts has                          *)
(* ceil(pageWidth / partWidth) * ceil(pageHeight / partHeight) entries;    *)
(* every step of the loop handles the next entry of that list or ends the  *)
(* call, and the call returns only when the list is through: the loop ends *)
(* after that many iterations.                                             *)
(***************************************************************************)
Ceil(a, b) == (a + b - 1) \div b

\* the first screenshot is as large as the viewport
PartWidth == viewport.width

PartHeight == IF viewport.height - 50 > 10 THEN viewport.height - 50 ELSE 10

PartsCount == Ceil(page.width, PartWidth) * Ceil(page.height, PartHeight)

C27_PartSizeAndLoopEnds ==
    [][InPartsLoop =>
          /\ PartWidth >= 1
          /\ PartHeight >= 10
          /\ Len(local.screenshot_parts) = PartsCount
          /\ \A i \in 1..PartsCount :
                LET part == local.screenshot_parts[i]
                IN /\ part.left % PartWidth = 0
                   /\ part.top % PartHeight = 0
                   /\ part.width = Min(PartWidth, page.width - part.left)
                   /\ part.height = Min(PartHeight, page.height - part.top)
          /\ local.next_part \in 1..(PartsCount + 1)
          /\ IF pc' = "parts"
             THEN /\ local'.next_part = local.next_part + 1
                  /\ local'.screenshot_parts = local.screenshot_parts
             ELSE /\ pc' = "idle"
                  /\ outcome' # "none"
                  /\ outcome' = "returned" => local.next_part = PartsCount + 1]_vars

\* the loop is through a list of parts in two columns cut from a 1x1 screenshot
C27_Witness ==
    /\ InPartsLoop
    /\ viewport = [width |-> 1, height |-> 1]
    /\ Len(local.screenshot_parts) = 4
    /\ local.next_part = 5

(***************************************************************************)
(* C28: after any sequence of switches and navigations through the wrapper *)
(* the tracked chain is empty exactly when the wrapped driver is in the    *)
(* default content, and otherwise the wrapped driver is as many frames     *)
(* deep as the chain is long.  Stated as the claim reads; the code         *)
(* violates it after parent_frame from depth 1.                            *)
(***************************************************************************)
C28_ChainDescribesNativeContext ==
    /\ (frames = <<>>) <=> (nativePath = <<>>)
    /\ Len(nativePath) = Len(frames)

(***************************************************************************)
(* C29: switch_to.frame appends exactly one frame to the tracked chain and *)
(* leaves the earlier entries as they were; the new entry holds the scroll *)
(* position the document had at the switch and the location of the frame   *)
(* element plus its left and top border widths, or plus 0 when they cannot *)
(* be read.  Stated as the claim reads; the code violates it under the CSS *)
(* stitch mode.                                                            *)
(***************************************************************************)
C29_FrameSwitchAppendsContext ==
    (call = "frame" /\ pc = "idle" /\ outcome = "returned") =>
        LET n == Len(pre.frames)
        IN /\ Len(frames) = n + 1
           /\ SubSeq(frames, 1, n) = pre.frames
           /\ LET entry == frames[Len(frames)]
                  element == FrameElement(pre.nativePath, entry.reference)
                  left == IF element.border.readable THEN element.border.left ELSE 0
                  top == IF element.border.readable THEN element.border.top ELSE 0
              IN /\ entry.parent_scroll_position = pre.docs[pre.nativePath].scroll
                 /\ entry.location = [x |-> element.location.x + left,
                                      y |-> element.location.y + top]

(***************************************************************************)
(* C30: for a non-empty chain f1..fn calc_frame_location_in_screenshot     *)
(* returns f1.location, less f1.parent_scroll_position when the screenshot *)
(* is a viewport screenshot, plus the sum over i = 2..n of fi.location -   *)
(* fi.parent_scroll_position; a negative result is returned like any       *)
(* other.                                                                  *)
(***************************************************************************)
RECURSIVE InnerShift(_, _, _)
InnerShift(chain, i, axis) ==
    IF i < 2 THEN 0
    ELSE InnerShift(chain, i - 1, axis)
             + (IF axis = "x" THEN chain[i].location.x - chain[i].parent_scroll_position.x
                ELSE chain[i].location.y - chain[i].parent_scroll_position.y)

C30_FrameLocationIsSumOfOffsets ==
    shotCall.name = "calc_frame_location_in_screenshot" =>
        LET chain == shotCall.frame_chain
            n == Len(chain)
            scrolled == shotCall.is_viewport_screenshot
        IN /\ shotOutcome = "returned"
           /\ shotResult.x = chain[1].location.x
                               - (IF scrolled THEN chain[1].parent_scroll_position.x ELSE 0)
                               + InnerShift(chain, n, "x")
           /\ shotResult.y = chain[1].location.y
                               - (IF scrolled THEN chain[1].parent_scroll_position.y ELSE 0)
                               + InnerShift(chain, n, "y")

\* three frames deep in a viewport screenshot, the frame lying left of and above it
C30_Witness ==
    /\ shotCall.name = "calc_frame_location_in_screenshot"
    /\ Len(shotCall.frame_chain) = 3
    /\ shotCall.is_viewport_screenshot
    /\ shotCall.frame_chain[1].parent_scroll_position # Point(0, 0)
    /\ shotResult.x < 0
    /\ shotResult.y < 0

(***************************************************************************)
(* C31: get_intersected_region returns the empty region or a region with   *)
(* left >= 0, top >= 0, right <= image width and bottom <= image height;   *)
(* the image get_sub_screenshot_by_region cuts has the size of that region *)
(* and holds only pixels of the screenshot.                                *)
(***************************************************************************)
InsideImage(r, image) ==
    /\ r.left >= 0
    /\ r.top >= 0
    /\ r.width >= 0
    /\ r.height >= 0
    /\ Right(r) <= image.width
    /\ Bottom(r) <= image.height

C31_IntersectedRegionInsideImage ==
    /\ shotCall.name = "get_intersected_region" =>
          \/ is_empty(shotResult)
          \/ InsideImage(shotResult, eshot._screenshot)
    /\ (shotCall.name = "get_sub_screenshot_by_region" /\ shotOutcome = "returned") =>
          LET cut == get_intersected_region(eshot, shotCall.arg)
              image == shotResult._screenshot
          IN /\ InsideImage(cut, eshot._screenshot)
             /\ image.width = cut.width /\ image.height = cut.height
             /\ \A j \in 1..image.height :
                   RowLen(image.pixel_bytes[j]) = image.width

\* a region that reaches over the right and lower edge of the image was cut
C31_Witness ==
    /\ shotCall.name = "get_intersected_region"
    /\ ~is_empty(shotResult)
    /\ shotResult.width > 0 /\ shotResult.height > 0
    /\ shotResult.width < shotCall.arg.width
    /\ shotResult.height < shotCall.arg.height
    /\ Right(shotResult) = eshot._screenshot.width

(***************************************************************************)
(* C32: after paste(left, top, tile) of a w x h tile onto an image of      *)
(* W x H the image's width is max(W, left + w), its height is              *)
(* max(H, top + h), and the tile's pixels are at rows top..top+h-1 and     *)
(* columns left..left+w-1 of the image, after any sequence of pastes.      *)
(***************************************************************************)
LastPaste == png.calls[Len(png.calls)]

\* the tile's pixels are in the image at (left, top)
PastedAt(image, left, top, pixel_bytes_to_paste) ==
    \A i \in 1..Len(pixel_bytes_to_paste) :
        \A j \in 0..(RowLen(pixel_bytes_to_paste[1]) - 1) :
            /\ top + i <= Len(image.pixel_bytes)
            /\ left + j < RowLen(image.pixel_bytes[top + i])
            /\ PixelAt(image.pixel_bytes[top + i], left + j)
                  = PixelAt(pixel_bytes_to_paste[i], j)

C32_PasteGrowsToBoundingBox ==
    png.calls # <<>> =>
        LET c == LastPaste
            w == RowLen(c.pixel_bytes_to_paste[1])
            h == Len(c.pixel_bytes_to_paste)
        IN /\ png.image.width = Max(png.before.width, c.left + w)
           /\ png.image.height = Max(png.before.height, c.top + h)
           /\ PastedAt(png.image, c.left, c.top, c.pixel_bytes_to_paste)

PollCreated(i) ==
    /\ client = "core"
    /\ i <= Len(sent)
    /\ sent[i] = "poll"
    /\ Received[i].status = 201
    /\ Received[i].location

C34_CreatedIsDeletedOnce ==
    \A i \in 1..Len(Received) :
        (PollCreated(i) /\ lrpc # "check") =>
            /\ Len(sent) = i + 1
            /\ sent[i + 1] = "delete"
            /\ urls[i + 1] = i
            /\ lrpc = "done" =>
                  /\ Len(Received) = i + 1
                  /\ lrOutcome = "returned"
                  /\ lrResult = Received[i + 1]

\* the answer to the DELETE is returned and parsed, whatever it is: here a
\* 202 with a Location header, which is not polled
C34_Witness ==
    /\ client = "core"
    /\ sent = <<"request", "poll", "poll", "delete">>
    /\ urls = <<0, 1, 1, 3>>
    /\ lrpc = "done"
    /\ lrResult = Response(202, TRUE)
    /\ parsed # NotParsed

(***************************************************************************)
(* C35: between the public calls of an Eyes instance a running session     *)
(* implies is_open(); the session appears only in a check on an open       *)
(* instance; and there is none after close() and after                     *)
(* abort_if_not_closed(), whether they return or raise.                    *)
(***************************************************************************)
C35_SessionOnlyWhileOpen ==
    /\ [](running_session # NoSession => is_open)
    /\ [](eyesCall.name \in {"close", "abort_if_not_closed"}
             => running_session = NoSession)
    /\ [][(running_session = NoSession /\ running_session' # NoSession)
             => (is_open /\ eyesCall'.name = "check")]_vars

\* an abort whose stop request failed with an error that abort_if_not_closed
\* does not catch
C35_Witness ==
    /\ eyesCall.name = "abort_if_not_closed"
    /\ eyesCall.running
    /\ eyesOutcome = "HTTPError"
    /\ running_session = NoSession
    /\ is_open

(***************************************************************************)
(* C36: after abort_if_not_closed() has returned, is_open() is false (so   *)
(* that a following open() on the instance does not raise 'a test is       *)
(* already running').                                                      *)
(***************************************************************************)
C36_AbortClosesTheInstance ==
    (eyesCall.name = "abort_if_not_closed" /\ eyesOutcome = "returned") => ~is_open

(***************************************************************************)
(* C37: an open() that fails because a test is already running sends no    *)
(* request to the server and leaves the running session, the driver and    *)
(* the app and test names as they were.                                    *)
(***************************************************************************)
C37_FailedOpenLeavesTestUntouched ==
    [][(is_open /\ eyesCall'.name = "open" /\ ~eyesCall'.no_key)
          => /\ wire' = wire
             /\ running_session' = running_session
             /\ eyesAttrs' = eyesAttrs]_vars

(***************************************************************************)
(* C38: when the wrapped driver's switch_to.frame raises, the frame chain  *)
(* after the failed switch_to.frame() of the wrapper is the chain before   *)
(* it.                                                                     *)
(***************************************************************************)
C38_FailedSwitchKeepsChain ==
    (call = "frame" /\ outcome = "NoSuchFrameException") => frames = pre.frames

(***************************************************************************)
(* C39: after push_state, any number of set_position calls and the         *)
(* matching pop_state, get_current_position() returns the position that    *)
(* was current when push_state was called, for both position providers,    *)
(* and nested pairs restore last in, first out.                            *)
(***************************************************************************)
C39_PopRestoresPushedPosition ==
    call = "pop_state" => get_current_position(D) = Positions[Len(posStates) + 1]

====
